---------------------------- MODULE Spec2Model ----------------------------
(***************************************************************************)
(* A model of the bridge runtime of Quant_WebWorks_GO:                     *)
(*   - the RPC transport adapter                                           *)
(*     (src/internal/bridge/adapters/grpc_adapter.go): its per-target      *)
(*     connection pools under SpecAdapter, Stop in its two parts under     *)
(*     SpecStop, Call, Stream and the error mapping under SpecCall, the    *)
(*     default interceptor chain of its server under SpecServe;            *)
(*   - the service discovery registry                                      *)
(*     (src/archive/import_fix_backup_20250323_030145/                     *)
(*      discovery_service.go.backup), under SpecRegistry (one watcher,     *)
(*     every input), SpecWatch (concurrent watchers, the clock),           *)
(*     SpecNotify (the four mutations against every set of listeners),     *)
(*     SpecHealth (health checks) and SpecUnwatch (the end of a watch);    *)
(*   - the base adapter (src/unnamed/part_003), under SpecBase,            *)
(*     SpecLatency (recordLatency) and SpecSend (Send and Receive called   *)
(*     by several goroutines);                                             *)
(*   - one ConnectionPool with concurrent Initialize, Get and Close,       *)
(*     under SpecPool;                                                     *)
(*   - the registry's life cycle (Initialize, Stop) under SpecLifecycle,   *)
(*     concurrent health checks against re-registration under SpecRace,    *)
(*     ServiceInfo.Metadata as a shared map under SpecAlias;               *)
(*   - the locks of the registry and of the adapter under SpecLocks;       *)
(*   - the registry's health check loop under SpecLoop, with the default   *)
(*     checker under SpecDefault, with everything else that is done to a   *)
(*     registry under SpecKeep, with Initialize and Stop in any order      *)
(*     under SpecRestartRegistry;                                          *)
(*   - UpdateServiceMetadata's merge under SpecMerge, a watcher whose      *)
(*     channel never fills under SpecDup, the mutating calls step by step  *)
(*     under SpecOrder;                                                    *)
(*   - the adapter's Call and Stream before and after Stop under           *)
(*     SpecRestart.                                                        *)
(* The components share no state but the clock; each specification leaves  *)
(* the other components' variables at their initial value.                 *)
(***************************************************************************)
EXTENDS Integers, Sequences, FiniteSets, TLC

VARIABLES
    \* ---- GRPCAdapter / ConnectionPool ----
    config,        \* GRPCAdapterConfig: [PoolSize]
    connections,   \* GRPCAdapter.connections: target -> pool id (NoPool: no entry)
    pools,         \* every ConnectionPool object ever constructed, by pool id
    conns,         \* every grpc.ClientConn ever dialed, by connection id
    tasks,         \* the goroutines calling getConnection: position and locals
    initLog,       \* per pool: what ConnectionPool.Initialize returned and left behind
    getLog,        \* per pool: what the successive ConnectionPool.Get calls returned
    calls,         \* number of getConnection calls started so far
    stops,         \* number of GRPCAdapter.Stop calls so far
    \* ---- DiscoveryService ----
    dconfig,        \* DiscoveryConfig: [DefaultServiceStatus, EnableWatching,
                    \*                   EnableHealthChecks]
    initialized,    \* DiscoveryService.initialized
    services,       \* DiscoveryService.services: service ID -> ServiceInfo
    eventListeners, \* DiscoveryService.eventListeners: listener ID -> channel
    chans,          \* the watchers' event channels: buffered, unreceived events
    watchers,       \* the WatchServices callers: position, filter, listener ID
    now,            \* the clock: what time.Now() returns
    ret,            \* what the last registry call returned (and emitted)
    checks,         \* the CheckServiceHealth callers: position, service ID, info read
    ctxs,           \* the contexts passed to WatchServices, by watcher
    \* ---- GRPCAdapter: client calls, server, Stop ----
    callRet,        \* the last Call or Stream: what conn.Invoke returned and
                    \* what the call returned to its caller
    server,         \* GRPCAdapter.server and GRPCAdapter.metrics: whether it
                    \* serves, the collector's counters, the last unary call
    stopper,        \* the goroutine calling GRPCAdapter.Stop: its position
    \* ---- BaseAdapter ----
    base,           \* BaseAdapter: status, stats, lastError
    latencies,      \* the durations handed to recordLatency so far
    \* ---- one ConnectionPool and its callers ----
    mutex,          \* ConnectionPool.mutex: the caller that holds it, or 0
    callers,        \* the goroutines calling Initialize, Get and Close on
                    \* the pool: position, locals, what the last call returned
    \* ---- ServiceInfo.Metadata by reference ----
    heap,           \* the map[string]string objects, by address: where a
                    \* ServiceInfo's Metadata is an address, the map it names
    \* ---- BaseAdapter called by several goroutines ----
    senders,        \* the goroutines calling Send and Receive: position,
                    \* the counter value loaded, calls returned so far
    \* ---- the locks of the registry and of the adapter ----
    locks,          \* servicesMutex, listenersMutex, connectionMutex and a
                    \* pool's mutex: writer, readers, readers kept waiting
    lockers,        \* the goroutines inside the operations: the lock
                    \* operations each has still to do before it returns
    \* ---- DiscoveryService: the health check loop and Stop ----
    stopChan,       \* DiscoveryService.stopChan: open or closed
    loops,          \* the healthCheckLoop goroutines started by Initialize:
                    \* position, the IDs still to check, the entry read
    stopCall,       \* the goroutine calling Stop: its position
    seen,           \* per watcher, the events its owner has taken from the
                    \* channel, oldest first
    muts,           \* the goroutines inside a mutating registry call: position,
                    \* the call, the event it is about to pass on
    applied         \* the events of the mutations in the order in which they
                    \* were applied to the service map

adapterVars ==
    <<config, connections, pools, conns, tasks, initLog, getLog, calls, stops>>

registryVars ==
    <<dconfig, initialized, services, eventListeners, chans, watchers, now, ret>>

\* the registry's health checks and its context-watching goroutines
taskVars == <<checks, ctxs>>

\* the adapter's client calls, its server and its Stop, and the base adapter
bridgeVars == <<callRet, server, stopper, base>>

\* the objects followed on their own: what was recorded on the base adapter,
\* a connection pool's lock and its callers, the metadata maps, the callers
\* of the base adapter, the locks and the goroutines that take them
objectVars == <<latencies, mutex, callers, heap, senders, locks, lockers>>

\* the registry's background goroutine and the caller of its Stop
backgroundVars == <<stopChan, loops, stopCall>>

\* the variables of the components followed on their own after these
\* the mutating registry calls followed step by step
mutationVars == <<muts, applied>>

extraVars == <<backgroundVars, seen, mutationVars>>

\* what getConnection leaves alone
adapterFrame == <<registryVars, taskVars, bridgeVars, objectVars, extraVars>>

\* what the registry calls that run no health check and end no watch leave
\* alone, besides the registry variables each of them names
registryFrame == <<adapterVars, taskVars, bridgeVars, objectVars, extraVars>>

\* what the health checks and the context-watching goroutines leave alone,
\* besides the registry variables each of them names
taskFrame == <<adapterVars, bridgeVars, objectVars, extraVars>>

vars == <<adapterVars, registryVars, taskVars, bridgeVars, objectVars, extraVars>>

(***************************************************************************)
(* Bounds of the adapter model.                                            *)
(***************************************************************************)
MaxPoolSize == 2      \* config.PoolSize ranges over 0..MaxPoolSize
MaxCalls    == 3      \* getConnection calls started in one behaviour
MaxStops    == 1      \* GRPCAdapter.Stop calls in one behaviour
MaxServed   == 3      \* unary calls the server counts in one behaviour
MaxMessages == 1      \* messages a base adapter sends, and receives
MaxErrors   == 2      \* errors recorded on a base adapter
MaxDuration == 10     \* the durations recorded range over 0..MaxDuration
MaxSamples  == 3      \* durations recorded on a base adapter
NumTasks    == 2      \* concurrent callers of getConnection

Targets == {"t1", "t2"}
Tasks   == 1..NumTasks
NoPool  == 0
NoConn  == 0

(***************************************************************************)
(* ConnectionPool.Initialize: the dial loop.  failAt is the position of    *)
(* the first dial that fails (failAt >= size: every dial succeeds).        *)
(* Returns the pool's connection list, the connection table and the error. *)
(***************************************************************************)
CloseAll(cs, tbl) ==
    [c \in 1..Len(tbl) |->
        IF \E j \in 1..Len(cs) : cs[j] = c
        THEN [tbl[c] EXCEPT !.closed = @ + 1]
        ELSE tbl[c]]

RECURSIVE InitializeLoop(_, _, _, _, _, _)
InitializeLoop(i, size, pid, cs, tbl, failAt) ==
    IF i >= size
    THEN [connections |-> cs, conns |-> tbl, err |-> FALSE]
    ELSE IF i = failAt
         THEN [connections |-> <<>>, conns |-> CloseAll(cs, tbl), err |-> TRUE]
         ELSE InitializeLoop(i + 1, size, pid,
                             Append(cs, Len(tbl) + 1),
                             Append(tbl, [pool |-> pid, closed |-> 0]),
                             failAt)

\* a dial failure that leaves the connections opened so far in place
RECURSIVE InitializeLoopLeaky(_, _, _, _, _, _)
InitializeLoopLeaky(i, size, pid, cs, tbl, failAt) ==
    IF i >= size
    THEN [connections |-> cs, conns |-> tbl, err |-> FALSE]
    ELSE IF i = failAt
         THEN [connections |-> cs, conns |-> tbl, err |-> TRUE]
         ELSE InitializeLoopLeaky(i + 1, size, pid,
                                  Append(cs, Len(tbl) + 1),
                                  Append(tbl, [pool |-> pid, closed |-> 0]),
                                  failAt)

PoolInitializeLeaky(pool, pid, tbl, failAt) ==
    InitializeLoopLeaky(0, pool.size, pid, pool.connections, tbl, failAt)

PoolInitialize(pool, pid, tbl, failAt) ==
    InitializeLoop(0, pool.size, pid, pool.connections, tbl, failAt)

(***************************************************************************)
(* ConnectionPool.Get: the connection at the cursor, cursor advanced       *)
(* modulo the pool length; an error on an empty pool.                      *)
(***************************************************************************)
\* a Get that hands out the connection but leaves the cursor where it was
PoolGetNoAdvance(pool) ==
    IF Len(pool.connections) = 0
    THEN [pool |-> pool, conn |-> NoConn, idx |-> pool.currentIndex,
          err |-> "no connections available in pool"]
    ELSE [pool |-> pool,
          conn |-> pool.connections[pool.currentIndex + 1],
          idx  |-> pool.currentIndex,
          err  |-> ""]

PoolGet(pool) ==
    IF Len(pool.connections) = 0
    THEN [pool |-> pool, conn |-> NoConn, idx |-> pool.currentIndex,
          err |-> "no connections available in pool"]
    ELSE IF pool.currentIndex >= Len(pool.connections)
    THEN [pool |-> pool, conn |-> NoConn, idx |-> pool.currentIndex,
          err |-> "panic: index out of range"]
    ELSE [pool |-> [pool EXCEPT !.currentIndex =
                        (pool.currentIndex + 1) % Len(pool.connections)],
          conn |-> pool.connections[pool.currentIndex + 1],
          idx  |-> pool.currentIndex,
          err  |-> ""]

(***************************************************************************)
(* ConnectionPool.Close: closes every connection held, clears the list.    *)
(***************************************************************************)
\* a Close that closes the connections and keeps the list
PoolCloseKept(pool, tbl) ==
    [pool |-> pool, conns |-> CloseAll(pool.connections, tbl)]

PoolClose(pool, tbl) ==
    [pool |-> [pool EXCEPT !.connections = <<>>],
     conns |-> CloseAll(pool.connections, tbl)]

(***************************************************************************)
(* One ConnectionPool called by several goroutines.  Each method takes the *)
(* pool's mutex on entry and releases it, deferred, when it returns: the   *)
(* steps between are the reads and writes of the pool's fields.            *)
(***************************************************************************)
MaxDials == 4         \* connections dialed for the pool in one behaviour

\* the ConnectionPool literal of lines 398-404
NewConnectionPool(target, size) ==
    [target |-> target, connections |-> <<>>, currentIndex |-> 0,
     size |-> size]

Unlocked == 0

\* a caller outside the pool's methods, with what its last call returned
Returned(op, conn, idx, err) ==
    [pc |-> "idle", op |-> op, conn |-> conn, idx |-> idx, err |-> err]

Resting == Returned("", NoConn, 0, "")

\* sync.Mutex.Lock returns only when nobody holds the mutex
MutexFree(m) == m = Unlocked

\* what the steps of the pool's methods leave alone
poolFrame ==
    <<config, connections, tasks, initLog, getLog, calls, stops,
      registryVars, taskVars, bridgeVars, latencies, heap, senders, locks,
      lockers, extraVars>>

\* p.mutex.Lock(), lines 511, 537 and 553, on entry to the method op
PoolLock(t, op) ==
    /\ callers[t].pc = "idle"
    /\ op = "Initialize" => Len(conns) + pools[1].size <= MaxDials
    /\ MutexFree(mutex)
    /\ mutex' = t
    /\ callers' = [callers EXCEPT ![t].pc = op]
    /\ UNCHANGED <<pools, conns>>
    /\ UNCHANGED poolFrame

\* ConnectionPool.Initialize, lines 513-533, and the deferred Unlock
PoolInitializeBody(t, failAt) ==
    /\ callers[t].pc = "Initialize"
    /\ LET r == PoolInitialize(pools[1], 1, conns, failAt)
       IN  /\ pools' = [pools EXCEPT ![1].connections = r.connections]
           /\ conns' = r.conns
           /\ callers' = [callers EXCEPT ![t] =
                 Returned("Initialize", NoConn, 0,
                          IF r.err THEN "dial failed" ELSE "")]
    /\ mutex' = Unlocked
    /\ UNCHANGED poolFrame

\* ConnectionPool.Get, lines 539-544: the length test and the read of the
\* connection at the cursor; the deferred Unlock when Get returns the
\* error or the index is out of range
PoolGetRead(t) ==
    /\ callers[t].pc = "Get"
    /\ LET r == PoolGet(pools[1])
       IN  IF r.err # ""
           THEN /\ callers' = [callers EXCEPT ![t] =
                       Returned("Get", NoConn, r.idx, r.err)]
                /\ mutex' = Unlocked
           ELSE /\ callers' = [callers EXCEPT ![t] =
                       [pc |-> "advance", op |-> "Get", conn |-> r.conn,
                        idx |-> r.idx, err |-> ""]]
                /\ UNCHANGED mutex
    /\ UNCHANGED <<pools, conns>>
    /\ UNCHANGED poolFrame

\* ConnectionPool.Get, lines 545-547: the cursor is advanced, the connection
\* read is returned, and the deferred Unlock
PoolGetAdvance(t) ==
    /\ callers[t].pc = "advance"
    /\ pools' = [pools EXCEPT ![1] = PoolGet(pools[1]).pool]
    /\ callers' = [callers EXCEPT ![t].pc = "idle"]
    /\ mutex' = Unlocked
    /\ UNCHANGED conns
    /\ UNCHANGED poolFrame

\* ConnectionPool.Close, lines 555-560, and the deferred Unlock
PoolCloseBody(t) ==
    /\ callers[t].pc = "Close"
    /\ LET r == PoolClose(pools[1], conns)
       IN  /\ pools' = [pools EXCEPT ![1] = r.pool]
           /\ conns' = r.conns
    /\ callers' = [callers EXCEPT ![t] = Returned("Close", NoConn, 0, "")]
    /\ mutex' = Unlocked
    /\ UNCHANGED poolFrame

(***************************************************************************)
(* GRPCAdapter.Stop, lines 332-340: under the pool-map write lock, close   *)
(* every pool of the map, then replace the map by an empty one; then,      *)
(* line 343, the graceful stop of the server.  Stop is the call with no    *)
(* other goroutine in between; StopLocked and StopGraceful are its two     *)
(* parts where others can run between them.                                *)
(***************************************************************************)
\* a loop that closes nothing
ClosePoolsSkipped(ts, ps, tbl) == [pools |-> ps, conns |-> tbl]

RECURSIVE ClosePools(_, _, _)
ClosePools(ts, ps, tbl) ==
    IF ts = {}
    THEN [pools |-> ps, conns |-> tbl]
    ELSE LET tg == CHOOSE x \in ts : TRUE
             r  == PoolClose(ps[connections[tg]], tbl)
         IN  ClosePools(ts \ {tg},
                        [ps EXCEPT ![connections[tg]] = r.pool],
                        r.conns)

\* lines 332-340: the section under the write lock
CloseAndReplace ==
    /\ LET r == ClosePools({tg \in Targets : connections[tg] # NoPool}, pools, conns)
       IN  /\ pools' = r.pools
           /\ conns' = r.conns
    /\ connections' = [tg \in Targets |-> NoPool]

Stop ==
    /\ stops < MaxStops
    /\ stopper.pc = "idle"
    /\ CloseAndReplace
    /\ server' = [server EXCEPT !.state = "stopped"]
    /\ stops' = stops + 1
    /\ UNCHANGED <<config, tasks, initLog, getLog, calls>>
    /\ UNCHANGED <<registryVars, taskVars, callRet, stopper, base,
                 objectVars, extraVars>>

\* GRPCAdapter.Stop, lines 328-340: up to the release of the write lock
StopLocked ==
    /\ stops < MaxStops
    /\ stopper.pc = "idle"
    /\ CloseAndReplace
    /\ stops' = stops + 1
    /\ stopper' = [pc |-> "draining"]
    /\ UNCHANGED <<config, tasks, initLog, getLog, calls>>
    /\ UNCHANGED <<registryVars, taskVars, callRet, server, base,
                 objectVars, extraVars>>

\* GRPCAdapter.Stop, line 343: a.server.GracefulStop(), and the return
StopGraceful ==
    /\ stopper.pc = "draining"
    /\ server' = [server EXCEPT !.state = "stopped"]
    /\ stopper' = [pc |-> "idle"]
    /\ UNCHANGED <<adapterVars, registryVars, taskVars, callRet, base,
                 objectVars, extraVars>>

(***************************************************************************)
(* GRPCAdapter.getConnection, in the three steps that other goroutines can *)
(* interleave with: the lookup under the read lock, the creation under the *)
(* write lock, and pool.Get under the pool's own lock.                     *)
(***************************************************************************)
LookupOk(target) == connections[target] # NoPool

\* a goroutine that is not inside getConnection
Idle == [pc |-> "idle", ok |-> FALSE, target |-> "", pool |-> NoPool]


\* a creation path that does not look again once it holds the write lock
RecheckSkipped(target) == FALSE

RecheckOk(target) == connections[target] # NoPool

\* lines 358-362: pool, ok = a.connections[target] under RLock
GetConnectionLookup(t, target) ==
    /\ tasks[t].pc = "idle"
    /\ calls < MaxCalls
    /\ calls' = calls + 1
    /\ tasks' = [tasks EXCEPT ![t] =
                    [pc     |-> IF LookupOk(target) THEN "get" ELSE "create",
                     ok     |-> LookupOk(target),
                     target |-> target,
                     pool   |-> connections[target]]]
    /\ UNCHANGED <<config, connections, pools, conns, initLog, getLog, stops>>
    /\ UNCHANGED adapterFrame

\* lines 364-367, 415: the write lock is taken and the pool is there by now
GetConnectionFound(t) ==
    /\ tasks[t].pc = "create"
    /\ RecheckOk(tasks[t].target)
    /\ tasks' = [tasks EXCEPT ![t].pc = "get",
                              ![t].pool = connections[tasks[t].target]]
    /\ UNCHANGED <<config, connections, pools, conns, initLog, getLog, calls, stops>>
    /\ UNCHANGED adapterFrame

\* lines 386-391: config.EnableTLS is set and loading the TLS credentials
\* fails: nothing is created
GetConnectionTLSError(t) ==
    /\ tasks[t].pc = "create"
    /\ ~RecheckOk(tasks[t].target)
    /\ tasks' = [tasks EXCEPT ![t] = Idle]
    /\ UNCHANGED <<config, connections, pools, conns, initLog, getLog, calls, stops>>
    /\ UNCHANGED adapterFrame

\* lines 397-413: a new pool is constructed and initialized; it is stored in
\* the map only when Initialize returned no error
GetConnectionCreate(t, failAt) ==
    /\ tasks[t].pc = "create"
    /\ ~RecheckOk(tasks[t].target)
    /\ LET pid  == Len(pools) + 1
           pool == [target       |-> tasks[t].target,
                    connections  |-> <<>>,
                    currentIndex |-> 0,
                    size         |-> config.PoolSize]
           r    == PoolInitialize(pool, pid, conns, failAt)
       IN  /\ pools' = Append(pools, [pool EXCEPT !.connections = r.connections])
           /\ conns' = r.conns
           /\ initLog' = Append(initLog,
                 [err  |-> r.err,
                  held |-> Len(r.connections),
                  open |-> Cardinality({c \in 1..Len(r.conns) :
                              r.conns[c].pool = pid /\ r.conns[c].closed = 0}),
                  dialed |-> Cardinality({c \in 1..Len(r.conns) :
                              r.conns[c].pool = pid})])
           /\ getLog' = Append(getLog, <<>>)
           /\ IF r.err
              THEN /\ tasks' = [tasks EXCEPT ![t] = Idle]
                   /\ UNCHANGED connections
              ELSE /\ tasks' = [tasks EXCEPT ![t].pc = "get", ![t].pool = pid]
                   /\ connections' = [connections EXCEPT ![tasks[t].target] = pid]
    /\ UNCHANGED <<config, calls, stops>>
    /\ UNCHANGED adapterFrame

\* line 419: return pool.Get()
GetConnectionGet(t) ==
    /\ tasks[t].pc = "get"
    /\ LET pid == tasks[t].pool
           r   == PoolGet(pools[pid])
       IN  /\ pools' = [pools EXCEPT ![pid] = r.pool]
           /\ tasks' = [tasks EXCEPT ![t] = Idle]
           /\ getLog' = [getLog EXCEPT ![pid] =
                            Append(@, [idx  |-> r.idx,
                                       conn |-> r.conn,
                                       err  |-> r.err,
                                       held |-> Len(pools[pid].connections)])]
    /\ UNCHANGED <<config, connections, conns, initLog, calls, stops>>
    /\ UNCHANGED adapterFrame

(***************************************************************************)
(* The service discovery registry (DiscoveryService).                      *)
(* Bounds of the registry model.                                           *)
(***************************************************************************)
MaxTime     == 2      \* distinct clock readings in one behaviour
NumWatchers == 2      \* callers of WatchServices, each with its own channel
SinkCap     == 1      \* buffer capacity of a watcher's channel
NumCheckers == 2      \* concurrent callers of CheckServiceHealth

Watchers   == 1..NumWatchers
Checkers   == 1..NumCheckers

\* time.Millisecond in nanoseconds (line 303: UnixNano() / int64(time.Millisecond))
NanosPerMilli == 1000000

\* the readings of time.Now().UnixNano(): consecutive nanoseconds, the first
\* of them the last nanosecond of a millisecond
FirstReading  == 2 * NanosPerMilli - 1
ClockReadings == FirstReading..(FirstReading + MaxTime - 1)

Millis(t) == t \div NanosPerMilli
ServiceIDs == {"svc-1", "svc-2"}

ErrNotInitialized     == "discovery service not initialized"
ErrInvalidServiceInfo == "invalid service information"
ErrServiceNotFound    == "service not found"
ErrWatchingDisabled   == "service watching is disabled"
ErrNilChannel         == "event channel cannot be nil"
ErrListenerNotFound   == "listener not found"
ErrHealthDisabled     == "health checks are disabled"
ErrProbe              == "health probe failed"

\* the ServiceStatus constants, lines 30-37
ServiceStatuses ==
    {"unknown", "starting", "running", "stopping", "stopped", "failed",
     "draining", "maintenance"}

\* a map[string]string with the keys D, every key bound to v
Meta(D, v) == [k \in D |-> v]

FilterMetas  == {Meta({}, ""), Meta({"env"}, "prod"), Meta({"env"}, "dev")}

(***************************************************************************)
(* The ServiceInfo values callers pass to RegisterService: svc-1 without   *)
(* metadata and without a status, svc-1 with metadata and a status, svc-2  *)
(* with metadata and without a status; and one value with each of the four *)
(* validated fields left at its zero value.                                *)
(***************************************************************************)
NameOf(id) == IF id = "svc-1" THEN "echo" ELSE "db"

MakeInfo(id, meta, status) ==
    [ID |-> id, Name |-> NameOf(id), Type |-> "grpc", Version |-> "v1",
     Address |-> "127.0.0.1", Port |-> 9000, Metadata |-> meta,
     Status |-> status, LastUpdated |-> 0]

ValidInfos ==
    {MakeInfo("svc-1", Meta({}, ""), ""),
     MakeInfo("svc-1", Meta({"env"}, "prod"), "failed"),
     MakeInfo("svc-2", Meta({"env"}, "prod"), "")}

InvalidInfos ==
    LET b == MakeInfo("svc-1", Meta({}, ""), "")
    IN  {[b EXCEPT !.ID = ""], [b EXCEPT !.Name = ""],
         [b EXCEPT !.Address = ""], [b EXCEPT !.Port = 0]}

InfoInputs == ValidInfos \cup InvalidInfos

(***************************************************************************)
(* ServiceFilter values: every field empty, equal to what services carry,  *)
(* or different from it.  Watchers use two of them.                        *)
(***************************************************************************)
AllFilters ==
    [ServiceType : {"", "grpc", "http"},
     Version     : {"", "v1", "v2"},
     Name        : {"", "echo", "db"},
     Address     : {"", "127.0.0.1", "10.0.0.2"},
     Metadata    : FilterMetas]

\* the filters callers pass to FindServices: at most one constrained field
Filters ==
    {f \in AllFilters :
        Cardinality({x \in {"ServiceType", "Version", "Name", "Address"} : f[x] # ""})
          + Cardinality(DOMAIN f.Metadata) <= 1}

Wildcard ==
    [ServiceType |-> "", Version |-> "", Name |-> "", Address |-> "",
     Metadata |-> Meta({}, "")]

WatchFilters ==
    {[Wildcard EXCEPT !.Name = "echo"],
     [Wildcard EXCEPT !.Metadata = Meta({"env"}, "prod")]}

\* Matches with a filter key the service lacks taken for a match
MatchesMissingKey(f, service) ==
    IF f.ServiceType # "" /\ f.ServiceType # service.Type THEN FALSE
    ELSE IF f.Version # "" /\ f.Version # service.Version THEN FALSE
    ELSE IF f.Name # "" /\ f.Name # service.Name THEN FALSE
    ELSE IF f.Address # "" /\ f.Address # service.Address THEN FALSE
    ELSE IF /\ Cardinality(DOMAIN f.Metadata) > 0
            /\ \E k \in DOMAIN f.Metadata :
                  /\ k \in DOMAIN service.Metadata
                  /\ service.Metadata[k] # f.Metadata[k]
         THEN FALSE
    ELSE TRUE

\* ServiceFilter.Matches, lines 67-98: one early return per field
Matches(f, service) ==
    IF f.ServiceType # "" /\ f.ServiceType # service.Type THEN FALSE
    ELSE IF f.Version # "" /\ f.Version # service.Version THEN FALSE
    ELSE IF f.Name # "" /\ f.Name # service.Name THEN FALSE
    ELSE IF f.Address # "" /\ f.Address # service.Address THEN FALSE
    ELSE IF /\ Cardinality(DOMAIN f.Metadata) > 0
            /\ \E k \in DOMAIN f.Metadata :
                  \/ k \notin DOMAIN service.Metadata
                  \/ service.Metadata[k] # f.Metadata[k]
         THEN FALSE
    ELSE TRUE

\* ServiceChangeEvent (its Timestamp, a clock reading no operation looks at,
\* is left out)
Event(type, info) == [Type |-> type, ServiceInfo |-> info]

\* what a registry call hands back: its error, and the types of the events
\* it passed to notifyListeners
Return(op, err, emitted) == [op |-> op, err |-> err, emitted |-> emitted]

\* a delivery loop that gives up at the first full channel it meets
RECURSIVE NotifyLoopUntilFull(_, _, _)
NotifyLoopUntilFull(lids, chs, event) ==
    IF lids = {}
    THEN chs
    ELSE LET lid == CHOOSE x \in lids : TRUE
             ch  == eventListeners[lid]
         IN  IF Len(chs[ch]) < SinkCap
             THEN NotifyLoopUntilFull(lids \ {lid},
                                      [chs EXCEPT ![ch] = Append(@, event)],
                                      event)
             ELSE chs

\* notifyListeners, lines 564-580: a non-blocking send to every listener
RECURSIVE NotifyLoop(_, _, _)
NotifyLoop(lids, chs, event) ==
    IF lids = {}
    THEN chs
    ELSE LET lid == CHOOSE x \in lids : TRUE
             ch  == eventListeners[lid]
         IN  NotifyLoop(lids \ {lid},
                        IF Len(chs[ch]) < SinkCap
                        THEN [chs EXCEPT ![ch] = Append(@, event)]
                        ELSE chs,
                        event)

NotifyListeners(event) == NotifyLoop(DOMAIN eventListeners, chans, event)

\* DiscoveryService.Initialize, lines 234-255
DSInitialize ==
    /\ ~initialized
    /\ initialized' = TRUE
    /\ ret' = Return("Initialize", "", <<>>)
    /\ UNCHANGED <<dconfig, services, eventListeners, chans, watchers, now>>
    /\ UNCHANGED registryFrame

\* DiscoveryService.Stop, lines 633-652: the listeners map is replaced by an
\* empty one (no channel is closed) and the registry is no longer
\* initialized; the services map is left as it is
DSStop ==
    /\ initialized
    /\ eventListeners' = <<>>
    /\ initialized' = FALSE
    /\ ret' = Return("Stop", "", <<>>)
    /\ UNCHANGED <<dconfig, services, chans, watchers, now>>
    /\ UNCHANGED registryFrame

\* the validation of line 263 without its Port test
InvalidInfoNoPort(info) ==
    info.ID = "" \/ info.Name = "" \/ info.Address = ""

\* line 263
InvalidInfo(info) ==
    info.ID = "" \/ info.Name = "" \/ info.Address = "" \/ info.Port = 0

\* a lookup that never finds the ID
ExistsNever(id) == FALSE

\* lines 271 and 341: the lookup of an ID in the service map
Exists(id) == id \in DOMAIN services

\* the default status set whatever the caller supplied
WithDefaultStatusAlways(info) ==
    [info EXCEPT !.Status = dconfig.DefaultServiceStatus]

\* lines 297-300
WithDefaultStatus(info) ==
    IF info.Status = ""
    THEN [info EXCEPT !.Status = dconfig.DefaultServiceStatus]
    ELSE info

\* lines 280 and 306: d.services[info.ID] = info
Put(info) ==
    [id \in DOMAIN services \cup {info.ID} |->
        IF id = info.ID THEN info ELSE services[id]]

\* DiscoveryService.RegisterService, lines 258-329
RegisterService(info) ==
    /\ IF ~initialized
       THEN /\ ret' = Return("RegisterService", ErrNotInitialized, <<>>)
            /\ UNCHANGED <<services, chans>>
       ELSE IF InvalidInfo(info)
       THEN /\ ret' = Return("RegisterService", ErrInvalidServiceInfo, <<>>)
            /\ UNCHANGED <<services, chans>>
       ELSE IF Exists(info.ID)
       THEN /\ services' = Put(info)
            /\ chans' = NotifyListeners(Event("updated", info))
            /\ ret' = Return("RegisterService", "", <<"updated">>)
       ELSE LET stored == [WithDefaultStatus(info) EXCEPT !.LastUpdated = Millis(now)]
            IN  /\ services' = Put(stored)
                /\ chans' = NotifyListeners(Event("added", stored))
                /\ ret' = Return("RegisterService", "", <<"added">>)
    /\ UNCHANGED <<dconfig, initialized, eventListeners, watchers, now>>
    /\ UNCHANGED registryFrame

\* a delete that empties the map
RemoveAll(id) == [x \in {} |-> services[x]]

\* line 347: delete(d.services, serviceID)
Remove(id) == [x \in DOMAIN services \ {id} |-> services[x]]

\* DiscoveryService.DeregisterService, lines 332-368
DeregisterService(id) ==
    /\ IF ~initialized
       THEN /\ ret' = Return("DeregisterService", ErrNotInitialized, <<>>)
            /\ UNCHANGED <<services, chans>>
       ELSE IF ~Exists(id)
       THEN /\ ret' = Return("DeregisterService", ErrServiceNotFound, <<>>)
            /\ UNCHANGED <<services, chans>>
       ELSE /\ services' = Remove(id)
            /\ chans' = NotifyListeners(Event("removed", services[id]))
            /\ ret' = Return("DeregisterService", "", <<"removed">>)
    /\ UNCHANGED <<dconfig, initialized, eventListeners, watchers, now>>
    /\ UNCHANGED registryFrame

\* DiscoveryService.GetService, lines 371-386: error and returned info
GetServiceResult(init, svcs, id) ==
    IF ~init THEN [err |-> ErrNotInitialized, out |-> {}]
    ELSE IF id \notin DOMAIN svcs THEN [err |-> ErrServiceNotFound, out |-> {}]
    ELSE [err |-> "", out |-> {svcs[id]}]

GetService(id) ==
    /\ LET r == GetServiceResult(initialized, services, id)
       IN  ret' = Return("GetService", r.err, <<>>)
    /\ UNCHANGED <<dconfig, initialized, services, eventListeners, chans,
                   watchers, now>>
    /\ UNCHANGED registryFrame

\* DiscoveryService.FindServices, lines 389-406: error and returned infos
FindServicesResult(init, svcs, filter) ==
    IF ~init THEN [err |-> ErrNotInitialized, out |-> {}]
    ELSE [err |-> "",
          out |-> {svcs[id] : id \in {x \in DOMAIN svcs : Matches(filter, svcs[x])}}]

FindServices(filter) ==
    /\ LET r == FindServicesResult(initialized, services, filter)
       IN  ret' = Return("FindServices", r.err, <<>>)
    /\ UNCHANGED <<dconfig, initialized, services, eventListeners, chans,
                   watchers, now>>
    /\ UNCHANGED registryFrame

\* line 427: fmt.Sprintf("listener-%d", time.Now().UnixNano()); the clock
\* reading stands for the string it is formatted into
ListenerID(t) == t

\* DiscoveryService.WatchServices, lines 414-424: the calls that are refused
WatchServicesRefused(w, nilChan) ==
    /\ watchers[w].pc = "idle"
    /\ ~initialized \/ ~dconfig.EnableWatching \/ nilChan
    /\ ret' = Return("WatchServices",
                     IF ~initialized THEN ErrNotInitialized
                     ELSE IF ~dconfig.EnableWatching THEN ErrWatchingDisabled
                     ELSE ErrNilChannel,
                     <<>>)
    /\ UNCHANGED <<dconfig, initialized, services, eventListeners, chans,
                   watchers, now>>
    /\ UNCHANGED registryFrame

\* DiscoveryService.WatchServices, lines 426-432: the listener is stored
\* under the listeners lock
WatchServicesStore(w, filter) ==
    /\ watchers[w].pc = "idle"
    /\ initialized /\ dconfig.EnableWatching
    /\ eventListeners' =
          [lid \in DOMAIN eventListeners \cup {ListenerID(now)} |->
              IF lid = ListenerID(now) THEN w ELSE eventListeners[lid]]
    /\ watchers' = [watchers EXCEPT ![w] =
                       [pc |-> "replay", filter |-> filter, id |-> ListenerID(now)]]
    /\ UNCHANGED <<dconfig, initialized, services, chans, now, ret>>
    /\ UNCHANGED registryFrame

\* lines 436-451: one non-blocking send per matching service, in the order
\* the map iteration yields them
RECURSIVE ReplayLoop(_, _, _)
ReplayLoop(order, i, ch) ==
    IF i > Len(order)
    THEN ch
    ELSE ReplayLoop(order, i + 1,
                    IF Len(ch) < SinkCap
                    THEN Append(ch, Event("added", services[order[i]]))
                    ELSE ch)

\* the orders in which a map iteration can yield the IDs of a set
Orders(S) ==
    {o \in [1..Cardinality(S) -> S] : \A i, j \in 1..Cardinality(S) :
                                          i # j => o[i] # o[j]}

\* DiscoveryService.WatchServices, lines 434-467: the replay under the
\* services read lock, and the return of the listener ID
WatchServicesReplay(w, order) ==
    /\ watchers[w].pc = "replay"
    /\ order \in Orders({id \in DOMAIN services :
                            Matches(watchers[w].filter, services[id])})
    /\ chans' = [chans EXCEPT ![w] = ReplayLoop(order, 1, @)]
    /\ watchers' = [watchers EXCEPT ![w].pc = "watching"]
    /\ ret' = Return("WatchServices", "", <<>>)
    /\ UNCHANGED <<dconfig, initialized, services, eventListeners, now>>
    /\ UNCHANGED registryFrame

\* the owner of channel w receives the oldest buffered event
Receive(w) ==
    /\ chans[w] # <<>>
    /\ chans' = [chans EXCEPT ![w] = Tail(@)]
    /\ UNCHANGED <<dconfig, initialized, services, eventListeners, watchers,
                   now, ret>>
    /\ UNCHANGED registryFrame

\* time passes
Tick ==
    /\ now + 1 \in ClockReadings
    /\ now' = now + 1
    /\ UNCHANGED <<dconfig, initialized, services, eventListeners, chans,
                   watchers, ret>>
    /\ UNCHANGED registryFrame

\* no health check in progress
NoCheck == [pc |-> "idle", id |-> "", status |-> ""]

\* updateServiceStatus, lines 530-561: the service map it leaves
UpdatedStatus(id, status) ==
    IF id \in DOMAIN services
    THEN Put([services[id] EXCEPT !.Status = status,
                                  !.LastUpdated = Millis(now)])
    ELSE services

\* updateServiceStatus, lines 540-559: whether it notifies the listeners
StatusChanges(id, status) ==
    id \in DOMAIN services /\ services[id].Status # status

\* an unhealthy result asking for `failed` whatever the status read
WantedStatusEager(read, healthy) ==
    IF healthy /\ read # "running" THEN "running"
    ELSE IF ~healthy /\ read # "failed" THEN "failed"
    ELSE ""

\* CheckServiceHealth, lines 520-524: the status a probe result asks for,
\* given the status read before the probe ("" when it asks for none)
WantedStatus(read, healthy) ==
    IF healthy /\ read # "running" THEN "running"
    ELSE IF ~healthy /\ read = "running" THEN "failed"
    ELSE ""

\* DiscoveryService.CheckServiceHealth, lines 492-507: the early returns
\* and the read of the entry under the services read lock
CheckServiceHealthRead(c, id) ==
    /\ checks[c].pc = "idle"
    /\ IF ~initialized
       THEN /\ ret' = Return("CheckServiceHealth", ErrNotInitialized, <<>>)
            /\ UNCHANGED checks
       ELSE IF ~dconfig.EnableHealthChecks
       THEN /\ ret' = Return("CheckServiceHealth", ErrHealthDisabled, <<>>)
            /\ UNCHANGED checks
       ELSE IF ~Exists(id)
       THEN /\ ret' = Return("CheckServiceHealth", ErrServiceNotFound, <<>>)
            /\ UNCHANGED checks
       ELSE /\ checks' = [checks EXCEPT ![c] =
                             [pc |-> "probe", id |-> id,
                              status |-> services[id].Status]]
            /\ UNCHANGED ret
    /\ UNCHANGED <<dconfig, initialized, services, eventListeners, chans,
                   watchers, now, ctxs>>
    /\ UNCHANGED taskFrame

\* DiscoveryService.CheckServiceHealth, lines 509-526: the probe has
\* returned `healthy`, or an error when probeErr; updateServiceStatus runs
\* under the services lock
CheckServiceHealthUpdate(c, healthy, probeErr) ==
    /\ checks[c].pc = "probe"
    /\ LET id     == checks[c].id
           wanted == WantedStatus(checks[c].status, healthy)
       IN  IF probeErr
           THEN /\ ret' = Return("CheckServiceHealth", ErrProbe, <<>>)
                /\ UNCHANGED <<services, chans>>
           ELSE IF wanted = ""
           THEN /\ ret' = Return("CheckServiceHealth", "", <<>>)
                /\ UNCHANGED <<services, chans>>
           ELSE /\ services' = UpdatedStatus(id, wanted)
                /\ IF StatusChanges(id, wanted)
                   THEN /\ chans' = NotifyListeners(
                                       Event("updated", UpdatedStatus(id, wanted)[id]))
                        /\ ret' = Return("CheckServiceHealth", "", <<"updated">>)
                   ELSE /\ chans' = chans
                        /\ ret' = Return("CheckServiceHealth", "", <<>>)
    /\ checks' = [checks EXCEPT ![c] = NoCheck]
    /\ UNCHANGED <<dconfig, initialized, eventListeners, watchers, now, ctxs>>
    /\ UNCHANGED taskFrame

\* the caller's map taking the place of the stored one
Replaced(old, metadata) == metadata

\* lines 766-772: the metadata map after the keys of `metadata` are written
\* into it
Merged(old, metadata) ==
    [k \in DOMAIN old \cup DOMAIN metadata |->
        IF k \in DOMAIN metadata THEN metadata[k] ELSE old[k]]

\* DiscoveryService.UpdateServiceMetadata, lines 757-789
UpdateServiceMetadata(id, metadata) ==
    /\ IF ~Exists(id)
       THEN /\ ret' = Return("UpdateServiceMetadata", ErrServiceNotFound, <<>>)
            /\ UNCHANGED <<services, chans>>
       ELSE LET info == [services[id] EXCEPT
                            !.Metadata = Merged(@, metadata),
                            !.LastUpdated = Millis(now)]
            IN  /\ services' = Put(info)
                /\ chans' = NotifyListeners(Event("updated", info))
                /\ ret' = Return("UpdateServiceMetadata", "", <<"updated">>)
    /\ UNCHANGED <<dconfig, initialized, eventListeners, watchers, now>>
    /\ UNCHANGED registryFrame

(***************************************************************************)
(* UpdateServiceMetadata with the Metadata of a ServiceInfo held the way   *)
(* Go holds a map: the struct carries a reference, and the copies of the   *)
(* struct in the service map, in events and in returned values carry the   *)
(* same reference.  Metadata is an address of `heap`, NilMap the nil map.  *)
(***************************************************************************)
NilMap == 0

MaxMaps == 2          \* map objects in one behaviour

\* what the in-place update leaves alone
heapFrame ==
    <<adapterVars, taskVars, bridgeVars, latencies, mutex, callers, senders,
      locks, lockers, extraVars>>

\* DiscoveryService.UpdateServiceMetadata, lines 757-789: a nil map is
\* replaced by the caller's map (766-767), any other map is written in place
\* (768-771)
UpdateServiceMetadataInPlace(id, metadata) ==
    /\ Exists(id) /\ services[id].Metadata = NilMap => Len(heap) < MaxMaps
    /\ IF ~Exists(id)
       THEN /\ ret' = Return("UpdateServiceMetadata", ErrServiceNotFound, <<>>)
            /\ UNCHANGED <<services, chans, heap>>
       ELSE LET old  == services[id].Metadata
                info == [services[id] EXCEPT
                            !.Metadata = IF old = NilMap THEN Len(heap) + 1
                                         ELSE old,
                            !.LastUpdated = Millis(now)]
            IN  /\ heap' = IF old = NilMap
                           THEN Append(heap, metadata)
                           ELSE [heap EXCEPT ![old] = Merged(@, metadata)]
                /\ services' = Put(info)
                /\ chans' = NotifyListeners(Event("updated", info))
                /\ ret' = Return("UpdateServiceMetadata", "", <<"updated">>)
    /\ UNCHANGED <<dconfig, initialized, eventListeners, watchers, now>>
    /\ UNCHANGED heapFrame

\* an unwatch that reports success and removes nothing
UnlistenNothing(listenerID) == eventListeners

\* line 481: delete(d.eventListeners, listenerID)
Unlisten(listenerID) ==
    [lid \in DOMAIN eventListeners \ {listenerID} |-> eventListeners[lid]]

\* DiscoveryService.UnwatchServices, lines 470-489
UnwatchServices(listenerID) ==
    /\ IF ~initialized
       THEN /\ ret' = Return("UnwatchServices", ErrNotInitialized, <<>>)
            /\ UNCHANGED eventListeners
       ELSE IF listenerID \notin DOMAIN eventListeners
       THEN /\ ret' = Return("UnwatchServices", ErrListenerNotFound, <<>>)
            /\ UNCHANGED eventListeners
       ELSE /\ eventListeners' = Unlisten(listenerID)
            /\ ret' = Return("UnwatchServices", "", <<>>)
    /\ UNCHANGED <<dconfig, initialized, services, chans, watchers, now>>
    /\ UNCHANGED registryFrame

\* the caller of WatchServices cancels the context it passed
ContextCancel(w) ==
    /\ ctxs[w] = "live"
    /\ ctxs' = [ctxs EXCEPT ![w] = "cancelled"]
    /\ UNCHANGED <<checks, registryVars, taskFrame>>

\* WatchServices, lines 454-464: the goroutine started when WatchServices
\* returns wakes on ctx.Done() and deletes the listener ID
ContextDone(w) ==
    /\ watchers[w].pc = "watching"
    /\ ctxs[w] = "cancelled"
    /\ eventListeners' = Unlisten(watchers[w].id)
    /\ ctxs' = [ctxs EXCEPT ![w] = "gone"]
    /\ UNCHANGED <<dconfig, initialized, services, chans, watchers, now, ret>>
    /\ UNCHANGED <<checks, taskFrame>>

\* NewDiscoveryService, lines 205-226, with the configuration cfg
NewDiscoveryService(cfg) ==
    /\ dconfig = cfg
    /\ initialized = FALSE
    /\ services = [id \in {} |-> Wildcard]
    /\ eventListeners = [lid \in {} |-> 0]
    /\ chans = [w \in Watchers |-> <<>>]
    /\ watchers = [w \in Watchers |-> [pc |-> "idle", filter |-> Wildcard, id |-> 0]]
    /\ now = FirstReading
    /\ ret = Return("NewDiscoveryService", "", <<>>)
    /\ checks = [c \in Checkers |-> NoCheck]
    /\ ctxs = [w \in Watchers |-> "live"]

\* DefaultDiscoveryConfig, lines 175-187
DefaultDiscoveryConfig ==
    [DefaultServiceStatus |-> "running", EnableWatching |-> TRUE,
     EnableHealthChecks |-> TRUE]

\* the default configuration, and one with another default status and
\* with watching and health checks switched off
DiscoveryConfigs ==
    {DefaultDiscoveryConfig,
     [DefaultServiceStatus |-> "starting", EnableWatching |-> FALSE,
      EnableHealthChecks |-> FALSE]}

(***************************************************************************)
(* GRPCAdapter.Call and GRPCAdapter.Stream: the client side.  An error     *)
(* value is nil, an error carrying a transport status (a code and a        *)
(* message), a plain error (errors.New, fmt.Errorf) or a *BridgeError.     *)
(***************************************************************************)
NilError == [type |-> "nil"]
StatusError(code, message) == [type |-> "status", code |-> code, message |-> message]
PlainError(message) == [type |-> "error", message |-> message]
BridgeError(code, message, details) ==
    [type |-> "BridgeError", Code |-> code, Message |-> message, Details |-> details]

\* the codes of google.golang.org/grpc/codes, and one value of the uint32
\* that is none of them
Codes ==
    {"OK", "Canceled", "Unknown", "InvalidArgument", "DeadlineExceeded",
     "NotFound", "AlreadyExists", "PermissionDenied", "ResourceExhausted",
     "FailedPrecondition", "Aborted", "OutOfRange", "Unimplemented",
     "Internal", "Unavailable", "DataLoss", "Unauthenticated", "Code(17)"}

Messages == {"boom"}

\* what conn.Invoke can return
InvokeErrors ==
    {NilError} \cup {StatusError(c, m) : c \in Codes, m \in Messages}
               \cup {PlainError("EOF")}

ErrConnectionFailed == "failed to establish gRPC connection"

\* a switch whose DeadlineExceeded case returns the kind of Canceled
KindOfCopied(code) ==
    CASE code = "InvalidArgument"    -> "INVALID_ARGUMENT"
      [] code = "NotFound"           -> "NOT_FOUND"
      [] code = "AlreadyExists"      -> "ALREADY_EXISTS"
      [] code = "PermissionDenied"   -> "PERMISSION_DENIED"
      [] code = "ResourceExhausted"  -> "RESOURCE_EXHAUSTED"
      [] code = "FailedPrecondition" -> "FAILED_PRECONDITION"
      [] code = "Aborted"            -> "ABORTED"
      [] code = "OutOfRange"         -> "OUT_OF_RANGE"
      [] code = "Unimplemented"      -> "UNIMPLEMENTED"
      [] code = "Internal"           -> "INTERNAL"
      [] code = "Unavailable"        -> "UNAVAILABLE"
      [] code = "DataLoss"           -> "DATA_LOSS"
      [] code = "Unauthenticated"    -> "UNAUTHENTICATED"
      [] code = "DeadlineExceeded"   -> "CANCELED"
      [] code = "Canceled"           -> "CANCELED"
      [] OTHER                       -> "UNKNOWN"

\* mapGRPCError, lines 707-788: the switch over st.Code()
KindOf(code) ==
    CASE code = "InvalidArgument"    -> "INVALID_ARGUMENT"
      [] code = "NotFound"           -> "NOT_FOUND"
      [] code = "AlreadyExists"      -> "ALREADY_EXISTS"
      [] code = "PermissionDenied"   -> "PERMISSION_DENIED"
      [] code = "ResourceExhausted"  -> "RESOURCE_EXHAUSTED"
      [] code = "FailedPrecondition" -> "FAILED_PRECONDITION"
      [] code = "Aborted"            -> "ABORTED"
      [] code = "OutOfRange"         -> "OUT_OF_RANGE"
      [] code = "Unimplemented"      -> "UNIMPLEMENTED"
      [] code = "Internal"           -> "INTERNAL"
      [] code = "Unavailable"        -> "UNAVAILABLE"
      [] code = "DataLoss"           -> "DATA_LOSS"
      [] code = "Unauthenticated"    -> "UNAUTHENTICATED"
      [] code = "DeadlineExceeded"   -> "DEADLINE_EXCEEDED"
      [] code = "Canceled"           -> "CANCELED"
      [] OTHER                       -> "UNKNOWN"

\* mapGRPCError, lines 697-789: nil for nil, a plain error for an error
\* status.FromError finds no status in, a *BridgeError otherwise
MapGRPCError(err) ==
    IF err = NilError THEN NilError
    ELSE IF err.type # "status" THEN PlainError("unknown error")
    ELSE BridgeError(KindOf(err.code), err.message, [code |-> err.code])

\* an adapter whose client side is shut: getConnection fails at once and
\* makes no pool
GetConnectionRefused(target, tlsErr, failAt) ==
    [connections |-> connections, pools |-> pools, conns |-> conns,
     initLog |-> initLog, getLog |-> getLog, err |-> TRUE]

\* GRPCAdapter.getConnection, lines 357-420, run from the lookup to
\* pool.Get with no other goroutine in between: the adapter state it
\* leaves and whether it returned an error
GetConnection(target, tlsErr, failAt) ==
    LET unchanged == [connections |-> connections, pools |-> pools,
                      conns |-> conns, initLog |-> initLog, getLog |-> getLog]
        got(state, pid) ==
            LET r == PoolGet(state.pools[pid])
            IN  [connections |-> state.connections,
                 pools   |-> [state.pools EXCEPT ![pid] = r.pool],
                 conns   |-> state.conns,
                 initLog |-> state.initLog,
                 getLog  |-> [state.getLog EXCEPT ![pid] =
                                 Append(@, [idx  |-> r.idx,
                                            conn |-> r.conn,
                                            err  |-> r.err,
                                            held |-> Len(state.pools[pid].connections)])],
                 err     |-> r.err # ""]
    IN  IF LookupOk(target)
        THEN got(unchanged, connections[target])
        ELSE IF tlsErr
        THEN [connections |-> connections, pools |-> pools, conns |-> conns,
              initLog |-> initLog, getLog |-> getLog, err |-> TRUE]
        ELSE LET pid  == Len(pools) + 1
                 pool == [target       |-> target,
                          connections  |-> <<>>,
                          currentIndex |-> 0,
                          size         |-> config.PoolSize]
                 r    == PoolInitialize(pool, pid, conns, failAt)
                 made == [connections |-> IF r.err THEN connections
                                          ELSE [connections EXCEPT ![target] = pid],
                          pools   |-> Append(pools, [pool EXCEPT !.connections = r.connections]),
                          conns   |-> r.conns,
                          initLog |-> Append(initLog,
                             [err  |-> r.err,
                              held |-> Len(r.connections),
                              open |-> Cardinality({c \in 1..Len(r.conns) :
                                          r.conns[c].pool = pid /\ r.conns[c].closed = 0}),
                              dialed |-> Cardinality({c \in 1..Len(r.conns) :
                                          r.conns[c].pool = pid})]),
                          getLog  |-> Append(getLog, <<>>)]
             IN  IF r.err
                 THEN [connections |-> made.connections, pools |-> made.pools,
                       conns |-> made.conns, initLog |-> made.initLog,
                       getLog |-> made.getLog, err |-> TRUE]
                 ELSE got(made, pid)

\* no Call or Stream has returned yet
NoCall == [op |-> "", connected |-> FALSE, invoked |-> NilError, err |-> NilError]

\* a.metrics.IncCounter(name, ...) behind `if a.metrics != nil`
IncCounter(srv, name) ==
    IF srv.metrics THEN [srv EXCEPT !.counters[name] = @ + 1] ELSE srv

\* GRPCAdapter.Call, lines 423-480; invokeErr is what conn.Invoke returns
Call(target, tlsErr, failAt, invokeErr) ==
    /\ calls < MaxCalls
    /\ calls' = calls + 1
    /\ LET g == GetConnection(target, tlsErr, failAt)
       IN  /\ connections' = g.connections
           /\ pools' = g.pools
           /\ conns' = g.conns
           /\ initLog' = g.initLog
           /\ getLog' = g.getLog
           /\ IF g.err
              THEN /\ callRet' = [op |-> "Call", connected |-> FALSE,
                                  invoked |-> NilError,
                                  err |-> PlainError(ErrConnectionFailed)]
                   /\ server' = IncCounter(server, "grpc_connection_errors")
              ELSE /\ callRet' = [op |-> "Call", connected |-> TRUE,
                                  invoked |-> invokeErr,
                                  err |-> MapGRPCError(invokeErr)]
                   /\ server' = IF invokeErr = NilError
                                THEN IncCounter(server, "grpc.requests_total")
                                ELSE IncCounter(IncCounter(server, "grpc.requests_total"),
                                                "grpc.errors_total")
    /\ UNCHANGED <<config, tasks, stops>>
    /\ UNCHANGED <<registryVars, taskVars, stopper, base, objectVars, extraVars>>

\* GRPCAdapter.Stream, lines 483-507
Stream(target, tlsErr, failAt) ==
    /\ calls < MaxCalls
    /\ calls' = calls + 1
    /\ LET g == GetConnection(target, tlsErr, failAt)
       IN  /\ connections' = g.connections
           /\ pools' = g.pools
           /\ conns' = g.conns
           /\ initLog' = g.initLog
           /\ getLog' = g.getLog
           /\ IF g.err
              THEN /\ callRet' = [op |-> "Stream", connected |-> FALSE,
                                  invoked |-> NilError,
                                  err |-> PlainError(ErrConnectionFailed)]
                   /\ server' = IncCounter(server, "grpc_stream_connection_errors")
              ELSE /\ callRet' = [op |-> "Stream", connected |-> TRUE,
                                  invoked |-> NilError, err |-> NilError]
                   /\ UNCHANGED server
    /\ UNCHANGED <<config, tasks, stops>>
    /\ UNCHANGED <<registryVars, taskVars, stopper, base, objectVars, extraVars>>

(***************************************************************************)
(* The server side of the adapter, and GRPCAdapter.Stop.                   *)
(***************************************************************************)
CounterNames ==
    {"grpc.requests_total", "grpc.errors_total", "grpc.panics_total",
     "grpc_connection_errors", "grpc_stream_connection_errors",
     "grpc.request_duration_seconds"}

\* no unary call served yet
NoUnary == [panicked |-> FALSE, err |-> NilError, resp |-> ""]

\* initServer, lines 178-226, and the metrics collector NewGRPCAdapter was
\* given (metrics: it is not nil)
NewServer(metrics) ==
    [state |-> "serving", metrics |-> metrics,
     counters |-> [n \in CounterNames |-> 0], call |-> NoUnary,
     trace |-> <<>>]

\* no Stop in progress
NotStopping == [pc |-> "idle"]

\* the outcome of a handler, and of each interceptor wrapped around it:
\* the server it leaves, the response and error it returns, and whether a
\* panic is unwinding through it
Outcome(srv, resp, err, panic) ==
    [srv |-> srv, resp |-> resp, err |-> err, panic |-> panic]

\* the registered unary handler: it panics, fails with handlerErr or
\* returns its response
Handler(srv, panics, handlerErr) ==
    IF panics THEN Outcome(srv, "", NilError, TRUE)
    ELSE IF handlerErr # NilError THEN Outcome(srv, "", handlerErr, FALSE)
    ELSE Outcome(srv, "response", NilError, FALSE)

\* the errors a handler returns
HandlerErrors == {NilError, StatusError("NotFound", "boom")}

\* an interceptor is entered, and left by its return: the marks the last
\* call has left in the order it left them
Entered(srv, name) ==
    [srv EXCEPT !.trace = Append(@, [at |-> "enter", of |-> name])]

Left(srv, name) ==
    [srv EXCEPT !.trace = Append(@, [at |-> "exit", of |-> name])]

\* a.metrics.ObserveHistogram(name, ...) behind `if a.metrics != nil`: the
\* number of observations
ObserveHistogram(srv, name) == IncCounter(srv, name)

\* the code of each interceptor before it calls its handler: lines 569-580,
\* 613, 644-662 (the deferred function is set up) and 675-677
LoggingEnter(srv) == Entered(srv, "logging")
MetricsEnter(srv) == Entered(srv, "metrics")
RecoveryEnter(srv) == Entered(srv, "recovery")
TimeoutEnter(srv) == Entered(srv, "timeout")

\* timeoutInterceptor, lines 669-681: a panic unwinds through it
TimeoutInterceptor(inner) ==
    IF inner.panic THEN inner
    ELSE [inner EXCEPT !.srv = Left(@, "timeout")]

\* an interceptor with no deferred recover
RecoveryInterceptorMissing(inner) == inner

\* recoveryInterceptor, lines 638-666
RecoveryInterceptor(inner) ==
    IF inner.panic
    THEN Outcome(Left(IncCounter(inner.srv, "grpc.panics_total"), "recovery"),
                 "", StatusError("Internal", "internal error"), FALSE)
    ELSE [inner EXCEPT !.srv = Left(@, "recovery")]

\* metricsInterceptor, lines 607-635: the code after handler() does not run
\* while a panic unwinds
MetricsInterceptor(inner) ==
    IF inner.panic THEN inner
    ELSE LET observed ==
                 ObserveHistogram(inner.srv, "grpc.request_duration_seconds")
         IN  [inner EXCEPT !.srv =
                 Left(IF inner.err = NilError THEN observed
                      ELSE IncCounter(observed, "grpc.errors_total"),
                      "metrics")]

\* loggingInterceptor, lines 562-604
LoggingInterceptor(inner) ==
    IF inner.panic THEN inner
    ELSE [inner EXCEPT !.srv =
             Left(IncCounter(@, "grpc.requests_total"), "logging")]

\* a chain with the recovery interceptor added first
ChainRecoveryFirst(srv, panics, handlerErr) ==
    RecoveryInterceptor(
        LoggingInterceptor(
            MetricsInterceptor(
                TimeoutInterceptor(
                    Handler(TimeoutEnter(MetricsEnter(LoggingEnter(
                                RecoveryEnter([srv EXCEPT !.trace = <<>>])))),
                            panics, handlerErr)))))

\* NewGRPCAdapter, lines 166-169, and initServer, lines 209-211: the chain
\* of the four default interceptors, the first added outermost
Chain(srv, panics, handlerErr) ==
    LoggingInterceptor(
        MetricsInterceptor(
            RecoveryInterceptor(
                TimeoutInterceptor(
                    Handler(TimeoutEnter(RecoveryEnter(MetricsEnter(
                                LoggingEnter([srv EXCEPT !.trace = <<>>])))),
                            panics, handlerErr)))))

\* the server serves one unary call; a panic that leaves the chain ends the
\* process
ServeUnary(panics, handlerErr) ==
    /\ server.state = "serving"
    /\ server.counters["grpc.requests_total"] < MaxServed
    /\ LET out == Chain(server, panics, handlerErr)
       IN  server' = IF out.panic
                     THEN [out.srv EXCEPT !.state = "crashed",
                                          !.call = [panicked |-> panics,
                                                    err |-> NilError, resp |-> ""]]
                     ELSE [out.srv EXCEPT !.call = [panicked |-> panics,
                                                    err |-> out.err,
                                                    resp |-> out.resp]]
    /\ UNCHANGED <<adapterVars, registryVars, taskVars, callRet, stopper, base,
                 objectVars, extraVars>>

(***************************************************************************)
(* BaseAdapter (src/unnamed/part_003).                                     *)
(***************************************************************************)
\* NewBaseAdapter, lines 131-142
NewBaseAdapter ==
    [status |-> "initializing", lastError |-> NilError,
     stats |-> [ConnectedSince |-> 0, LastActivity |-> 0,
                MessagesReceived |-> 0, MessagesSent |-> 0, Errors |-> 0,
                Reconnects |-> 0, AverageLatency |-> 0,
                CurrentConnections |-> 0, MaxConnections |-> 1,
                RateLimitExceeded |-> 0, CurrentRateLimitUse |-> 0]]

\* the errors recorded on an adapter
BaseErrors == {PlainError("connection reset"), PlainError("send timeout")}

\* updateStatus, lines 195-198
updateStatus(b, status) == [b EXCEPT !.status = status]

\* a setError that counts the error and leaves the status alone
setErrorStatusKept(b, err) ==
    [b EXCEPT !.lastError = err, !.stats.Errors = @ + 1]

\* setError, lines 200-205
setError(b, err) ==
    [updateStatus([b EXCEPT !.lastError = err], "error")
        EXCEPT !.stats.Errors = @ + 1]

\* incrementMessagesSent, lines 207-211
incrementMessagesSent(b) ==
    [b EXCEPT !.stats.MessagesSent = @ + 1, !.stats.LastActivity = now]

\* incrementMessagesReceived, lines 213-217
incrementMessagesReceived(b) ==
    [b EXCEPT !.stats.MessagesReceived = @ + 1, !.stats.LastActivity = now]

\* what a step of the base adapter leaves alone
baseFrame ==
    <<adapterVars, registryVars, taskVars, callRet, server, stopper, objectVars, extraVars>>

\* BaseAdapter.Initialize, lines 236-241
BaseInitialize ==
    /\ base' = updateStatus(base, "initializing")
    /\ UNCHANGED baseFrame

\* BaseAdapter.Connect, lines 243-250
BaseConnect ==
    /\ base' = [updateStatus(updateStatus(base, "connecting"), "connected")
                   EXCEPT !.stats.ConnectedSince = now]
    /\ UNCHANGED baseFrame

\* BaseAdapter.Disconnect, lines 252-257
BaseDisconnect ==
    /\ base' = updateStatus(base, "disconnected")
    /\ UNCHANGED baseFrame

\* BaseAdapter.Shutdown, lines 259-264
BaseShutdown ==
    /\ base' = updateStatus(base, "stopped")
    /\ UNCHANGED baseFrame

\* BaseAdapter.Send, lines 266-271
BaseSend ==
    /\ base.stats.MessagesSent < MaxMessages
    /\ base' = incrementMessagesSent(base)
    /\ UNCHANGED baseFrame

\* BaseAdapter.Receive, lines 273-278
BaseReceive ==
    /\ base.stats.MessagesReceived < MaxMessages
    /\ base' = incrementMessagesReceived(base)
    /\ UNCHANGED baseFrame

\* the durations an adapter measures (time.Duration, in nanoseconds)
Durations == 0..MaxDuration

\* recordLatency, lines 219-227; Go's / on non-negative operands is \div
recordLatency(b, duration) ==
    [b EXCEPT !.stats.AverageLatency =
        IF @ = 0 THEN duration ELSE (@ * 9 + duration) \div 10]

\* what the recording of a latency leaves alone
latencyFrame ==
    <<adapterVars, registryVars, taskVars, callRet, server, stopper,
      mutex, callers, heap, senders, locks, lockers, extraVars>>

\* an adapter built on BaseAdapter records how long an operation took:
\* recordLatency(duration)
BaseRecordLatency(duration) ==
    /\ Len(latencies) < MaxSamples
    /\ base' = recordLatency(base, duration)
    /\ latencies' = Append(latencies, duration)
    /\ UNCHANGED latencyFrame

(***************************************************************************)
(* Send and Receive called by several goroutines.  BaseAdapter has no lock *)
(* and its counters are plain fields: a.stats.MessagesSent++ is a load and *)
(* a store of the field, and other goroutines run between the two.         *)
(***************************************************************************)
\* a goroutine outside Send and Receive that has made no call yet
NoSend == [pc |-> "idle", loaded |-> 0, sent |-> 0, received |-> 0]

\* what the steps of Send and Receive leave alone
sendFrame ==
    <<adapterVars, registryVars, taskVars, callRet, server, stopper,
      latencies, mutex, callers, heap, locks, lockers, extraVars>>

\* BaseAdapter.Send, lines 266-271, into incrementMessagesSent, line 209:
\* the load of a.stats.MessagesSent
BaseSendLoad(t) ==
    /\ senders[t].pc = "idle"
    /\ senders[t].sent < MaxMessages
    /\ senders' = [senders EXCEPT ![t].pc = "Send",
                                  ![t].loaded = base.stats.MessagesSent]
    /\ UNCHANGED base
    /\ UNCHANGED sendFrame

\* lines 209-210: the store of the incremented value, the write of
\* LastActivity, and the return of Send
BaseSendStore(t) ==
    /\ senders[t].pc = "Send"
    /\ base' = [base EXCEPT !.stats.MessagesSent = senders[t].loaded + 1,
                            !.stats.LastActivity = now]
    /\ senders' = [senders EXCEPT ![t].pc = "idle", ![t].sent = @ + 1]
    /\ UNCHANGED sendFrame

\* BaseAdapter.Receive, lines 273-278, into incrementMessagesReceived, line
\* 215: the load of a.stats.MessagesReceived
BaseReceiveLoad(t) ==
    /\ senders[t].pc = "idle"
    /\ senders[t].received < MaxMessages
    /\ senders' = [senders EXCEPT ![t].pc = "Receive",
                                  ![t].loaded = base.stats.MessagesReceived]
    /\ UNCHANGED base
    /\ UNCHANGED sendFrame

\* lines 215-216: the store of the incremented value, the write of
\* LastActivity, and the return of Receive
BaseReceiveStore(t) ==
    /\ senders[t].pc = "Receive"
    /\ base' = [base EXCEPT !.stats.MessagesReceived = senders[t].loaded + 1,
                            !.stats.LastActivity = now]
    /\ senders' = [senders EXCEPT ![t].pc = "idle", ![t].received = @ + 1]
    /\ UNCHANGED sendFrame

\* an adapter built on BaseAdapter records a failure: setError(err)
BaseSetError(err) ==
    /\ base.stats.Errors < MaxErrors
    /\ base' = setError(base, err)
    /\ UNCHANGED baseFrame

(***************************************************************************)
(* The locks.  Every operation of the registry and of the adapter is the   *)
(* sequence of lock operations its code performs, with the probe, the dial *)
(* and the other waits between them; what it reads and writes under the    *)
(* locks is left out.  An operation with several paths has one sequence    *)
(* for each.                                                               *)
(*                                                                         *)
(* sync.RWMutex: Lock first takes the writers' mutex w (one writer at a    *)
(* time), which also keeps new readers out, and then waits until the       *)
(* readers inside have left; RLock enters when no writer holds w and waits *)
(* otherwise; Unlock lets every waiting reader in and releases w.          *)
(* sync.Mutex is the same lock without readers.                            *)
(***************************************************************************)
LockNames == {"servicesMutex", "listenersMutex", "connectionMutex", "poolMutex"}

NoHolder == 0

Free == [w |-> NoHolder, readers |-> {}, blocked |-> {}]

Do(op, n) == [do |-> op, on |-> n]

\* the steps of Lock on an RWMutex, of Lock on a Mutex, and of a wait
WLock(n) == <<Do("Lock", n), Do("Drain", n)>>
MLock(n) == <<Do("Lock", n)>>
Wait(what) == <<Do("wait", what)>>

\* RegisterService 267-328, DeregisterService 337-367, updateServiceStatus
\* 531-560 and UpdateServiceMetadata 758-788 where they notify: the services
\* lock, and inside it notifyListeners 565-580 under the listeners read lock
NotifyingWrite ==
    WLock("servicesMutex")
        \o <<Do("RLock", "listenersMutex"), Do("RUnlock", "listenersMutex"),
             Do("Unlock", "servicesMutex")>>

\* the same operations where they return before notifying (service not
\* found, status as it was)
PlainWrite == WLock("servicesMutex") \o <<Do("Unlock", "servicesMutex")>>

\* GetService 376-385, FindServices 394-405, CheckServiceHealth 501-503
PlainRead == <<Do("RLock", "servicesMutex"), Do("RUnlock", "servicesMutex")>>

\* UnwatchServices 475-488, the goroutine of WatchServices 457-459
ListenerWrite == WLock("listenersMutex") \o <<Do("Unlock", "listenersMutex")>>

\* a WatchServices that replays the services while it holds the listeners
\* lock
WatchServicesLocksNested ==
    WLock("listenersMutex")
        \o PlainRead \o <<Do("Unlock", "listenersMutex")>>

\* WatchServices 430-452: the listener is stored under the listeners lock,
\* the lock is released, the services are replayed under the services read
\* lock
WatchServicesLocks == ListenerWrite \o PlainRead

\* CheckServiceHealth 501-526: the read alone when the service is unknown
\* (504-506); the read, the probe, and updateServiceStatus 530-561 with its
\* notification.  (A probe that changes nothing ends after the probe, and an
\* update of a service removed meanwhile takes the services lock only:
\* PlainRead and PlainWrite in turn.)
CheckServiceHealthLocks ==
    {PlainRead,
     PlainRead \o Wait("probe") \o NotifyingWrite}

\* DiscoveryService.Stop 633-652: the health check loop is waited for with no
\* lock held (644), then the listeners are replaced under their lock
DSStopLocks == Wait("healthCheckLoop") \o ListenerWrite

\* ConnectionPool.Get 537-548
PoolGetLocks == MLock("poolMutex") \o <<Do("Unlock", "poolMutex")>>

\* getConnection 358-360: the lookup under the read lock
LookupLocks ==
    <<Do("RLock", "connectionMutex"), Do("RUnlock", "connectionMutex")>>

\* getConnection 357-420: the pool is found under the read lock (358-362);
\* the pool is created under the write lock (364) and Initialize 511-533
\* dials under the pool's mutex, then Get 419.  (The pool created is a new
\* object: taking its mutex for the one shared pool only adds waiting.  A
\* pool found at 366, and the returns at 389 and 409, release the write
\* lock having taken no other lock or the same ones.)
GetConnectionLocks ==
    {LookupLocks \o PoolGetLocks,
     LookupLocks \o WLock("connectionMutex") \o MLock("poolMutex")
         \o Wait("dial")
         \o <<Do("Unlock", "poolMutex"), Do("Unlock", "connectionMutex")>>
         \o PoolGetLocks}

\* GRPCAdapter.Stop 328-344: under the pool-map lock every pool is closed
\* (Close 553-560 under the pool's mutex), then the graceful stop 343
StopLocks ==
    {WLock("connectionMutex") \o MLock("poolMutex")
         \o <<Do("Unlock", "poolMutex"), Do("Unlock", "connectionMutex")>>
         \o Wait("GracefulStop")}

\* the operations, each as the lock operations of one of its paths
Operations ==
    {NotifyingWrite, PlainWrite, PlainRead, ListenerWrite, WatchServicesLocks,
     DSStopLocks}
        \cup CheckServiceHealthLocks \cup GetConnectionLocks \cup StopLocks

\* what the lock operations leave alone
lockFrame ==
    <<adapterVars, registryVars, taskVars, bridgeVars,
      latencies, mutex, callers, heap, senders, extraVars>>

\* goroutine t enters an operation
LockStart(t, script) ==
    /\ lockers[t] = <<>>
    /\ lockers' = [lockers EXCEPT ![t] = script]
    /\ UNCHANGED locks
    /\ UNCHANGED lockFrame

\* Lock, first part: the writers' mutex (the whole of a sync.Mutex's Lock)
Acquire(t) ==
    /\ lockers[t] # <<>> /\ Head(lockers[t]).do = "Lock"
    /\ locks[Head(lockers[t]).on].w = NoHolder
    /\ locks' = [locks EXCEPT ![Head(lockers[t]).on].w = t]
    /\ lockers' = [lockers EXCEPT ![t] = Tail(@)]
    /\ UNCHANGED lockFrame

\* Lock, second part: the readers inside have left
Drain(t) ==
    /\ lockers[t] # <<>> /\ Head(lockers[t]).do = "Drain"
    /\ locks[Head(lockers[t]).on].readers = {}
    /\ lockers' = [lockers EXCEPT ![t] = Tail(@)]
    /\ UNCHANGED locks
    /\ UNCHANGED lockFrame

\* Unlock: the readers kept waiting enter, the writers' mutex is released
Release(t) ==
    /\ lockers[t] # <<>> /\ Head(lockers[t]).do = "Unlock"
    /\ LET n == Head(lockers[t]).on
       IN  /\ locks' = [locks EXCEPT ![n] =
                           [w |-> NoHolder, readers |-> @.readers \cup @.blocked,
                            blocked |-> {}]]
           /\ lockers' = [u \in Tasks |->
                             IF u = t \/ u \in locks[n].blocked
                             THEN Tail(lockers[u]) ELSE lockers[u]]
    /\ UNCHANGED lockFrame

\* RLock: the reader enters, or is kept waiting by a writer
ReadAcquire(t) ==
    /\ lockers[t] # <<>> /\ Head(lockers[t]).do = "RLock"
    /\ LET n == Head(lockers[t]).on
       IN  /\ t \notin locks[n].blocked
           /\ IF locks[n].w = NoHolder
              THEN /\ locks' = [locks EXCEPT ![n].readers = @ \cup {t}]
                   /\ lockers' = [lockers EXCEPT ![t] = Tail(@)]
              ELSE /\ locks' = [locks EXCEPT ![n].blocked = @ \cup {t}]
                   /\ UNCHANGED lockers
    /\ UNCHANGED lockFrame

\* RUnlock
ReadRelease(t) ==
    /\ lockers[t] # <<>> /\ Head(lockers[t]).do = "RUnlock"
    /\ locks' = [locks EXCEPT ![Head(lockers[t]).on].readers = @ \ {t}]
    /\ lockers' = [lockers EXCEPT ![t] = Tail(@)]
    /\ UNCHANGED lockFrame

\* the probe, the dial, the health check loop, the graceful stop: each ends
Waited(t) ==
    /\ lockers[t] # <<>> /\ Head(lockers[t]).do = "wait"
    /\ lockers' = [lockers EXCEPT ![t] = Tail(@)]
    /\ UNCHANGED locks
    /\ UNCHANGED lockFrame

\* the next step of goroutine t inside its operation
LockStep(t) ==
    \/ Acquire(t)
    \/ Drain(t)
    \/ Release(t)
    \/ ReadAcquire(t)
    \/ ReadRelease(t)
    \/ Waited(t)

(***************************************************************************)
(* The registry's background goroutine.  Initialize starts a               *)
(* healthCheckLoop goroutine when health checks are enabled; the loop      *)
(* selects between stopChan and its ticker, and on a tick runHealthChecks  *)
(* lists the service IDs and calls CheckServiceHealth for each of them.    *)
(* Stop closes stopChan, waits for the loops and replaces the listeners.   *)
(***************************************************************************)
MaxLoops == 2         \* healthCheckLoop goroutines started in one behaviour
MaxSeen  == 3      \* events a watcher's owner takes from its channel

LoopIds == 1..MaxLoops

\* a loop that was not started
NoLoop == [pc |-> "none", pending |-> <<>>, id |-> "", status |-> "", err |-> ""]

\* a loop at its select, lines 589-596, having logged err for its last check
AtSelect(err) ==
    [pc |-> "select", pending |-> <<>>, id |-> "", status |-> "", err |-> err]

\* a loop that has returned (wg.Done, line 584)
Exited(err) ==
    [pc |-> "exited", pending |-> <<>>, id |-> "", status |-> "", err |-> err]

\* the WaitGroup's counter: the loops started that have not returned
Running == {l \in LoopIds : loops[l].pc \notin {"none", "exited"}}

\* a goroutine that is in no mutating call
NoMutation == [pc |-> "idle", op |-> <<>>, event |-> <<>>]

\* NewDiscoveryService, lines 205-226: stopChan is made, no loop runs, no
\* call has changed the service map
NothingStarted ==
    /\ stopChan = "open"
    /\ loops = [l \in LoopIds |-> NoLoop]
    /\ stopCall = "idle"
    /\ seen = [w \in Watchers |-> <<>>]
    /\ muts = [t \in Tasks |-> NoMutation]
    /\ applied = <<>>

\* what the loop and the lifecycle calls leave alone
loopFrame == <<adapterVars, taskVars, bridgeVars, objectVars, seen, mutationVars>>

\* DiscoveryService.Initialize, lines 234-255: with health checks enabled a
\* healthCheckLoop goroutine is started (249-250), whether or not the
\* registry is initialized already
DSInitializeStart ==
    /\ dconfig.EnableHealthChecks => \E l \in LoopIds : loops[l].pc = "none"
    /\ loops' = IF dconfig.EnableHealthChecks
                THEN [loops EXCEPT
                         ![CHOOSE l \in LoopIds :
                              /\ loops[l].pc = "none"
                              /\ \A k \in 1..(l - 1) : loops[k].pc # "none"] =
                            AtSelect("")]
                ELSE loops
    /\ initialized' = TRUE
    /\ ret' = Return("Initialize", "", <<>>)
    /\ UNCHANGED <<dconfig, services, eventListeners, chans, watchers, now>>
    /\ UNCHANGED <<stopChan, stopCall>>
    /\ UNCHANGED loopFrame

\* healthCheckLoop, lines 590-592: stopChan is closed, the loop returns
LoopExit(l) ==
    /\ loops[l].pc = "select"
    /\ stopChan = "closed"
    /\ loops' = [loops EXCEPT ![l] = Exited(@.err)]
    /\ UNCHANGED <<registryVars, stopChan, stopCall>>
    /\ UNCHANGED loopFrame

\* healthCheckLoop, lines 593-594, into runHealthChecks, lines 601-606: the
\* ticker fires and the service IDs are listed, in the order the map yields
\* them
LoopTick(l, order) ==
    /\ loops[l].pc = "select"
    /\ order \in Orders(DOMAIN services)
    /\ loops' = [loops EXCEPT ![l] =
                    IF order = <<>> THEN AtSelect(@.err)
                    ELSE [pc |-> "run", pending |-> order, id |-> "",
                          status |-> "", err |-> @.err]]
    /\ UNCHANGED <<registryVars, stopChan, stopCall>>
    /\ UNCHANGED loopFrame

\* runHealthChecks, lines 608-629: the check of an ID is over and err is
\* logged; the next ID follows, or the loop is back at its select
Checked(loop, err) ==
    IF Len(loop.pending) = 1 THEN AtSelect(err)
    ELSE [pc |-> "run", pending |-> Tail(loop.pending), id |-> "",
          status |-> "", err |-> err]

\* runHealthChecks, line 613, into CheckServiceHealth, lines 492-507: the
\* early returns and the read of the entry
LoopCheckRead(l) ==
    /\ loops[l].pc = "run"
    /\ LET id == Head(loops[l].pending)
       IN  loops' = [loops EXCEPT ![l] =
                        IF ~initialized THEN Checked(@, ErrNotInitialized)
                        ELSE IF ~dconfig.EnableHealthChecks
                        THEN Checked(@, ErrHealthDisabled)
                        ELSE IF ~Exists(id) THEN Checked(@, ErrServiceNotFound)
                        ELSE [@ EXCEPT !.pc = "probe", !.id = id,
                                       !.status = services[id].Status]]
    /\ UNCHANGED <<registryVars, stopChan, stopCall>>
    /\ UNCHANGED loopFrame

\* CheckServiceHealth, lines 509-526, called by the loop: the probe has
\* returned `healthy`, or an error when probeErr; the result is logged
\* (616-626) and given to no caller
LoopCheckUpdate(l, healthy, probeErr) ==
    /\ loops[l].pc = "probe"
    /\ LET id     == loops[l].id
           wanted == WantedStatus(loops[l].status, healthy)
       IN  IF probeErr
           THEN /\ loops' = [loops EXCEPT ![l] = Checked(@, ErrProbe)]
                /\ UNCHANGED <<services, chans>>
           ELSE /\ loops' = [loops EXCEPT ![l] = Checked(@, "")]
                /\ IF wanted = ""
                   THEN UNCHANGED <<services, chans>>
                   ELSE /\ services' = UpdatedStatus(id, wanted)
                        /\ chans' =
                              IF StatusChanges(id, wanted)
                              THEN NotifyListeners(
                                      Event("updated", UpdatedStatus(id, wanted)[id]))
                              ELSE chans
    /\ UNCHANGED <<dconfig, initialized, eventListeners, watchers, now, ret>>
    /\ UNCHANGED <<stopChan, stopCall>>
    /\ UNCHANGED loopFrame

\* DefaultHealthChecker.CheckHealth, lines 126-142, of an entry read with
\* the status `read`: the context times out first, or the 100ms pass
DefaultCheckHealth(read, timedOut) ==
    IF timedOut THEN [healthy |-> FALSE, err |-> TRUE]
    ELSE [healthy |-> read = "running", err |-> FALSE]

\* DiscoveryService.Stop, lines 633-641: not initialized, it returns; else
\* stopChan is closed, and closing a closed channel panics
StopSignal ==
    /\ stopCall = "idle"
    /\ IF ~initialized
       THEN /\ ret' = Return("Stop", "", <<>>)
            /\ UNCHANGED <<stopChan, stopCall>>
       ELSE IF stopChan = "closed"
       THEN /\ stopCall' = "panic"
            /\ ret' = Return("Stop", "panic: close of closed channel", <<>>)
            /\ UNCHANGED stopChan
       ELSE /\ stopChan' = "closed"
            /\ stopCall' = "wait"
            /\ UNCHANGED ret
    /\ UNCHANGED <<dconfig, initialized, services, eventListeners, chans,
                   watchers, now, loops>>
    /\ UNCHANGED loopFrame

\* a Stop that empties the registry along with the listeners
StopJoinClearing ==
    /\ stopCall = "wait"
    /\ Running = {}
    /\ eventListeners' = <<>>
    /\ services' = <<>>
    /\ initialized' = FALSE
    /\ stopCall' = "idle"
    /\ ret' = Return("Stop", "", <<>>)
    /\ UNCHANGED <<dconfig, chans, watchers, now, stopChan, loops>>
    /\ UNCHANGED loopFrame

\* DiscoveryService.Stop, lines 644-651: every loop has returned (wg.Wait),
\* the listeners map is replaced, the registry is no longer initialized
StopJoin ==
    /\ stopCall = "wait"
    /\ Running = {}
    /\ eventListeners' = <<>>
    /\ initialized' = FALSE
    /\ stopCall' = "idle"
    /\ ret' = Return("Stop", "", <<>>)
    /\ UNCHANGED <<dconfig, services, chans, watchers, now, stopChan, loops>>
    /\ UNCHANGED loopFrame

\* CheckServiceHealth, lines 509-526, called by the loop with the default
\* checker: the probe sees the entry that the loop read
DefaultLoopCheck(l, timedOut) ==
    LET r == DefaultCheckHealth(loops[l].status, timedOut)
    IN  LoopCheckUpdate(l, r.healthy, r.err)

\* CheckServiceHealth, lines 509-526, called by a caller with the default
\* checker
DefaultCheck(c, timedOut) ==
    LET r == DefaultCheckHealth(checks[c].status, timedOut)
    IN  CheckServiceHealthUpdate(c, r.healthy, r.err)

\* the owner of channel w takes the oldest buffered event and keeps it
Consume(w) ==
    /\ chans[w] # <<>>
    /\ Len(seen[w]) < MaxSeen
    /\ chans' = [chans EXCEPT ![w] = Tail(@)]
    /\ seen' = [seen EXCEPT ![w] = Append(@, Head(chans[w]))]
    /\ UNCHANGED <<dconfig, initialized, services, eventListeners, watchers,
                   now, ret>>
    /\ UNCHANGED <<adapterVars, taskVars, bridgeVars, objectVars, backgroundVars,
                   mutationVars>>

\* every channel has room for one more event
Roomy == \A w \in Watchers : Len(chans[w]) < SinkCap

(***************************************************************************)
(* The mutating calls step by step: RegisterService, DeregisterService and *)
(* updateServiceStatus take the services write lock, change the service    *)
(* map, hand the event to notifyListeners and release the lock when they   *)
(* return.                                                                 *)
(***************************************************************************)
MaxMutations == 3     \* events of mutations in one behaviour

\* a lock that keeps nobody out
MayLockAlways(t) == TRUE

\* servicesMutex.Lock(), lines 267, 337 and 531: granted when no goroutine
\* holds the lock
MayLock(t) == locks["servicesMutex"].w = NoHolder

\* the calls: RegisterService with an info, DeregisterService of its ID,
\* updateServiceStatus of its ID to a status
MutatingCall(kind, info, status) ==
    [kind |-> kind, info |-> info, status |-> status]

\* lines 271-321, 341-359 and 534-554: the service map a call leaves and the
\* event it passes to notifyListeners, if any
MutationResult(op) ==
    LET id == op.info.ID
    IN  IF op.kind = "register"
        THEN IF Exists(id)
             THEN [services |-> Put(op.info),
                   event |-> <<Event("updated", op.info)>>]
             ELSE LET stored == [WithDefaultStatus(op.info)
                                    EXCEPT !.LastUpdated = Millis(now)]
                  IN  [services |-> Put(stored),
                       event |-> <<Event("added", stored)>>]
        ELSE IF ~Exists(id)
        THEN [services |-> services, event |-> <<>>]
        ELSE IF op.kind = "deregister"
        THEN [services |-> Remove(id),
              event |-> <<Event("removed", services[id])>>]
        ELSE [services |-> UpdatedStatus(id, op.status),
              event |-> IF StatusChanges(id, op.status)
                        THEN <<Event("updated", UpdatedStatus(id, op.status)[id])>>
                        ELSE <<>>]

\* what the steps of a mutating call leave alone
mutationFrame ==
    <<adapterVars, taskVars, bridgeVars, latencies, mutex, callers, heap,
      senders, lockers, backgroundVars, seen>>

\* goroutine t enters the call op and takes the services lock
MutLock(t, op) ==
    /\ initialized
    /\ muts[t].pc = "idle"
    /\ Len(applied) < MaxMutations
    /\ MayLock(t)
    /\ locks' = [locks EXCEPT !["servicesMutex"].w = t]
    /\ muts' = [muts EXCEPT ![t] = [pc |-> "locked", op |-> op, event |-> <<>>]]
    /\ UNCHANGED <<registryVars, applied>>
    /\ UNCHANGED mutationFrame

\* the service map is changed
MutApply(t) ==
    /\ muts[t].pc = "locked"
    /\ LET r == MutationResult(muts[t].op)
       IN  /\ services' = r.services
           /\ applied' = applied \o r.event
           /\ muts' = [muts EXCEPT ![t].pc = "notify", ![t].event = r.event]
    /\ UNCHANGED <<dconfig, initialized, eventListeners, chans, watchers, now, ret>>
    /\ UNCHANGED <<locks, mutationFrame>>

\* notifyListeners, lines 564-580, with the event of the change
MutNotify(t) ==
    /\ muts[t].pc = "notify"
    /\ chans' = IF muts[t].event = <<>> THEN chans
                ELSE NotifyListeners(muts[t].event[1])
    /\ muts' = [muts EXCEPT ![t].pc = "unlock"]
    /\ UNCHANGED <<dconfig, initialized, services, eventListeners, watchers,
                   now, ret>>
    /\ UNCHANGED <<locks, applied, mutationFrame>>

\* the deferred servicesMutex.Unlock() as the call returns
MutUnlock(t) ==
    /\ muts[t].pc = "unlock"
    /\ locks' = [locks EXCEPT !["servicesMutex"].w = NoHolder]
    /\ muts' = [muts EXCEPT ![t] = NoMutation]
    /\ UNCHANGED <<registryVars, applied>>
    /\ UNCHANGED mutationFrame

\* the adapter's server, with the metrics collector it was given, and a
\* base adapter, after construction
NewBridge(metrics) ==
    /\ callRet = NoCall
    /\ server = NewServer(metrics)
    /\ stopper = NotStopping
    /\ base = NewBaseAdapter
    /\ latencies = <<>>
    /\ mutex = Unlocked
    /\ callers = [t \in Tasks |-> Resting]
    /\ heap = <<>>
    /\ senders = [t \in Tasks |-> NoSend]
    /\ locks = [n \in LockNames |-> Free]
    /\ lockers = [t \in Tasks |-> <<>>]
    /\ NothingStarted

\* NewGRPCAdapter, lines 143-175, with the configuration cfg
NewGRPCAdapter(cfg) ==
    /\ config = cfg
    /\ connections = [tg \in Targets |-> NoPool]
    /\ pools = <<>>
    /\ conns = <<>>
    /\ tasks = [t \in Tasks |-> Idle]
    /\ initLog = <<>>
    /\ getLog = <<>>
    /\ calls = 0
    /\ stops = 0

InitAdapter ==
    /\ \E cfg \in [PoolSize : 0..MaxPoolSize] : NewGRPCAdapter(cfg)
    /\ NewDiscoveryService(DefaultDiscoveryConfig)
    /\ NewBridge(TRUE)

InitRegistry ==
    /\ \E cfg \in DiscoveryConfigs : NewDiscoveryService(cfg)
    /\ NewGRPCAdapter([PoolSize |-> 0])
    /\ NewBridge(TRUE)

InitWatch ==
    /\ NewDiscoveryService(DefaultDiscoveryConfig)
    /\ NewGRPCAdapter([PoolSize |-> 0])
    /\ NewBridge(TRUE)

NextAdapter ==
    \/ \E t \in Tasks, target \in Targets : GetConnectionLookup(t, target)
    \/ \E t \in Tasks : GetConnectionFound(t)
    \/ \E t \in Tasks : GetConnectionTLSError(t)
    \/ \E t \in Tasks, failAt \in 0..MaxPoolSize : GetConnectionCreate(t, failAt)
    \/ \E t \in Tasks : GetConnectionGet(t)
    \/ Stop

\* the registry with every input and one watcher
NextRegistry ==
    \/ DSInitialize
    \/ \E info \in InfoInputs : RegisterService(info)
    \/ \E id \in ServiceIDs : DeregisterService(id)
    \/ \E id \in ServiceIDs : GetService(id)
    \/ \E filter \in Filters : FindServices(filter)
    \/ \E nilChan \in BOOLEAN : WatchServicesRefused(1, nilChan)
    \/ \E filter \in WatchFilters : WatchServicesStore(1, filter)
    \/ \E order \in UNION {Orders(S) : S \in SUBSET ServiceIDs} :
          WatchServicesReplay(1, order)
    \/ Receive(1)

\* the services the watchers see come and go: svc-1 and svc-2 with metadata
WatchedInfos ==
    {i \in ValidInfos : i.Metadata = Meta({"env"}, "prod")}

\* the registry with concurrent watchers
NextWatch ==
    \/ DSInitialize
    \/ \E info \in WatchedInfos : RegisterService(info)
    \/ \E id \in ServiceIDs : DeregisterService(id)
    \/ \E w \in Watchers, filter \in WatchFilters : WatchServicesStore(w, filter)
    \/ \E w \in Watchers, order \in UNION {Orders(S) : S \in SUBSET ServiceIDs} :
          WatchServicesReplay(w, order)
    \/ \E w \in Watchers : Receive(w)
    \/ Tick

\* one service, registered without a status, and the metadata written to it
NotifyInfos == {MakeInfo("svc-1", Meta({}, ""), "")}
NotifyMetas == {Meta({"env"}, "prod")}

\* the last n events of a service that was registered and deregistered,
\* again and again, before the behaviour starts
EarlierEvents(n) ==
    [i \in 1..n |->
        Event(IF (n - i) % 2 = 0 THEN "removed" ELSE "added",
              [MakeInfo("svc-2", Meta({"env"}, "prod"), "running")
                  EXCEPT !.LastUpdated = Millis(FirstReading)])]

\* the service maps the behaviours start from: empty, or with the service
\* registered before any watcher came
EarlierServices ==
    {[id \in {} |-> Wildcard]} \cup
    {[id \in {info.ID} |->
         [info EXCEPT !.Status = DefaultDiscoveryConfig.DefaultServiceStatus,
                      !.LastUpdated = Millis(FirstReading)]] :
       info \in NotifyInfos}

\* an initialized registry with every set of listeners and every fill of
\* their channels: each watcher of L has called WatchServices at a clock
\* reading of its own, has received the replay and has since left the
\* last events, any number up to the capacity, unreceived
InitNotify ==
    /\ NewGRPCAdapter([PoolSize |-> 0])
    /\ NewBridge(TRUE)
    /\ dconfig = DefaultDiscoveryConfig
    /\ initialized = TRUE
    /\ services \in EarlierServices
    /\ \E L \in SUBSET {w \in Watchers : FirstReading + w - 1 \in ClockReadings} :
       \E fill \in [L -> 0..SinkCap] :
          /\ eventListeners =
                [lid \in {ListenerID(FirstReading + w - 1) : w \in L} |->
                    CHOOSE w \in L : ListenerID(FirstReading + w - 1) = lid]
          /\ watchers = [w \in Watchers |->
                           IF w \in L
                           THEN [pc |-> "watching", filter |-> Wildcard,
                                 id |-> ListenerID(FirstReading + w - 1)]
                           ELSE [pc |-> "idle", filter |-> Wildcard, id |-> 0]]
          /\ chans = [w \in Watchers |->
                         IF w \in L THEN EarlierEvents(fill[w]) ELSE <<>>]
    /\ now = FirstReading + MaxTime - 1
    /\ ret = Return("WatchServices", "", <<>>)
    /\ checks = [c \in Checkers |-> NoCheck]
    /\ ctxs = [w \in Watchers |-> "live"]

\* the four kinds of mutation: the service is registered, checked by a
\* health checker, given metadata and deregistered
NextNotify ==
    \/ \E info \in NotifyInfos : RegisterService(info)
    \/ \E info \in NotifyInfos : DeregisterService(info.ID)
    \/ \E info \in NotifyInfos : CheckServiceHealthRead(1, info.ID)
    \/ \E healthy \in BOOLEAN : CheckServiceHealthUpdate(1, healthy, FALSE)
    \/ \E info \in NotifyInfos, m \in NotifyMetas :
          UpdateServiceMetadata(info.ID, m)

\* the services whose health is checked: one registered without a status,
\* one registered as starting
HealthInfos ==
    {MakeInfo("svc-1", Meta({}, ""), ""),
     MakeInfo("svc-2", Meta({"env"}, "prod"), "starting")}

\* services are registered and deregistered while one caller checks their
\* health and one watcher receives the events
NextHealth ==
    \/ DSInitialize
    \/ \E info \in HealthInfos : RegisterService(info)
    \/ \E info \in HealthInfos : DeregisterService(info.ID)
    \/ \E info \in HealthInfos : CheckServiceHealthRead(1, info.ID)
    \/ \E healthy, probeErr \in BOOLEAN :
          CheckServiceHealthUpdate(1, healthy, probeErr)
    \/ WatchServicesStore(1, Wildcard)
    \/ \E order \in UNION {Orders(S) : S \in SUBSET ServiceIDs} :
          WatchServicesReplay(1, order)
    \/ Receive(1)

\* the handles passed to UnwatchServices: one for each clock reading
Handles == {ListenerID(reading) : reading \in ClockReadings}

\* one service is registered, updated and deregistered while the first
\* watcher watches, unwatches and cancels its context
NextUnwatch ==
    \/ DSInitialize
    \/ \E info \in NotifyInfos : RegisterService(info)
    \/ \E info \in NotifyInfos : DeregisterService(info.ID)
    \/ \E info \in NotifyInfos, m \in NotifyMetas :
          UpdateServiceMetadata(info.ID, m)
    \/ WatchServicesStore(1, Wildcard)
    \/ \E order \in UNION {Orders(S) : S \in SUBSET ServiceIDs} :
          WatchServicesReplay(1, order)
    \/ \E lid \in Handles : UnwatchServices(lid)
    \/ ContextCancel(1)
    \/ ContextDone(1)
    \/ Tick

\* an adapter with any pool size, with or without a metrics collector
InitCall ==
    /\ \E cfg \in [PoolSize : 0..MaxPoolSize] : NewGRPCAdapter(cfg)
    /\ NewDiscoveryService(DefaultDiscoveryConfig)
    /\ \E metrics \in BOOLEAN : NewBridge(metrics)

\* one caller after the other calls and streams, all to one target
NextCall ==
    \/ \E tlsErr \in BOOLEAN, failAt \in 0..MaxPoolSize,
          invokeErr \in InvokeErrors :
          Call("t1", tlsErr, failAt, invokeErr)
    \/ \E tlsErr \in BOOLEAN, failAt \in 0..MaxPoolSize :
          Stream("t1", tlsErr, failAt)

\* one goroutine calls getConnection while another calls Stop; alone, it
\* never finds at the recheck a pool that its lookup missed
NextStop ==
    \/ \E target \in Targets : GetConnectionLookup(1, target)
    \/ GetConnectionTLSError(1)
    \/ \E failAt \in 0..MaxPoolSize : GetConnectionCreate(1, failAt)
    \/ GetConnectionGet(1)
    \/ StopLocked
    \/ StopGraceful

\* the server serves unary calls until the adapter is stopped
NextServe ==
    \/ \E panics \in BOOLEAN, handlerErr \in HandlerErrors :
          ServeUnary(panics, handlerErr)
    \/ Stop

\* the lifecycle calls, the message calls and the recording of failures
\* of one base adapter, in any order, while the clock advances
NextBase ==
    \/ BaseInitialize
    \/ BaseConnect
    \/ BaseDisconnect
    \/ BaseShutdown
    \/ BaseSend
    \/ BaseReceive
    \/ \E err \in BaseErrors : BaseSetError(err)
    \/ Tick

\* one base adapter records one duration after the other
NextLatency == \E duration \in Durations : BaseRecordLatency(duration)

\* the registry is initialized, used and stopped, and used while it is not
\* initialized
NextLifecycle ==
    \/ DSInitialize
    \/ DSStop
    \/ \E info \in NotifyInfos : RegisterService(info)
    \/ \E info \in NotifyInfos : DeregisterService(info.ID)
    \/ \E info \in NotifyInfos : GetService(info.ID)
    \/ FindServices(Wildcard)
    \/ WatchServicesRefused(1, FALSE)
    \/ WatchServicesStore(1, Wildcard)
    \/ \E order \in UNION {Orders(S) : S \in SUBSET ServiceIDs} :
          WatchServicesReplay(1, order)
    \/ \E lid \in Handles : UnwatchServices(lid)
    \/ \E info \in NotifyInfos : CheckServiceHealthRead(1, info.ID)
    \/ \E healthy, probeErr \in BOOLEAN :
          CheckServiceHealthUpdate(1, healthy, probeErr)
    \/ \E info \in NotifyInfos, m \in NotifyMetas :
          UpdateServiceMetadata(info.ID, m)
    \/ Tick

\* one pool of any configured size, not yet initialized, outside the map
InitPool ==
    /\ \E cfg \in [PoolSize : 0..MaxPoolSize] :
          /\ config = cfg
          /\ pools = <<NewConnectionPool("t1", cfg.PoolSize)>>
    /\ connections = [tg \in Targets |-> NoPool]
    /\ conns = <<>>
    /\ tasks = [t \in Tasks |-> Idle]
    /\ initLog = <<>>
    /\ getLog = <<>>
    /\ calls = 0
    /\ stops = 0
    /\ NewDiscoveryService(DefaultDiscoveryConfig)
    /\ NewBridge(TRUE)

\* the callers of one pool initialize it, get connections and close it, in
\* any order and at the same time
NextPool ==
    \/ \E t \in Tasks, op \in {"Initialize", "Get", "Close"} : PoolLock(t, op)
    \/ \E t \in Tasks, failAt \in 0..MaxPoolSize : PoolInitializeBody(t, failAt)
    \/ \E t \in Tasks : PoolGetRead(t)
    \/ \E t \in Tasks : PoolGetAdvance(t)
    \/ \E t \in Tasks : PoolCloseBody(t)

\* svc-1 as its owner registers it, and as a second caller registers it
\* again: another version, stopped
RaceInfos ==
    {MakeInfo("svc-1", Meta({}, ""), "running"),
     [MakeInfo("svc-1", Meta({}, ""), "stopped") EXCEPT !.Version = "v2"]}

\* the registry after Initialize, with the default configuration
InitRace ==
    /\ NewGRPCAdapter([PoolSize |-> 0])
    /\ NewBridge(TRUE)
    /\ dconfig = DefaultDiscoveryConfig
    /\ initialized = TRUE
    /\ services = [id \in {} |-> Wildcard]
    /\ eventListeners = [lid \in {} |-> 0]
    /\ chans = [w \in Watchers |-> <<>>]
    /\ watchers = [w \in Watchers |-> [pc |-> "idle", filter |-> Wildcard, id |-> 0]]
    /\ now = FirstReading
    /\ ret = Return("Initialize", "", <<>>)
    /\ checks = [c \in Checkers |-> NoCheck]
    /\ ctxs = [w \in Watchers |-> "live"]

\* svc-1 is down: every probe reports it unhealthy or fails.  Several
\* callers check its health at the same time while it is registered,
\* registered again and deregistered
NextRace ==
    \/ \E info \in RaceInfos : RegisterService(info)
    \/ DeregisterService("svc-1")
    \/ \E c \in Checkers : CheckServiceHealthRead(c, "svc-1")
    \/ \E c \in Checkers, probeErr \in BOOLEAN :
          CheckServiceHealthUpdate(c, FALSE, probeErr)

\* the maps the callers of RegisterService have built: one, at address 1
CallerMaps == <<Meta({"env"}, "dev")>>

\* svc-1 registered with the caller's map, and without a map
AliasInfos ==
    {[MakeInfo("svc-1", Meta({}, ""), "") EXCEPT !.Metadata = 1],
     [MakeInfo("svc-1", Meta({}, ""), "") EXCEPT !.Metadata = NilMap]}

\* the registry after Initialize and a WatchServices of the first watcher,
\* with the default configuration and no service
InitAlias ==
    /\ NewGRPCAdapter([PoolSize |-> 0])
    /\ callRet = NoCall
    /\ server = NewServer(TRUE)
    /\ stopper = NotStopping
    /\ base = NewBaseAdapter
    /\ latencies = <<>>
    /\ mutex = Unlocked
    /\ callers = [t \in Tasks |-> Resting]
    /\ heap = CallerMaps
    /\ senders = [t \in Tasks |-> NoSend]
    /\ locks = [n \in LockNames |-> Free]
    /\ lockers = [t \in Tasks |-> <<>>]
    /\ NothingStarted
    /\ dconfig = DefaultDiscoveryConfig
    /\ initialized = TRUE
    /\ services = [id \in {} |-> Wildcard]
    /\ eventListeners = [lid \in {ListenerID(FirstReading)} |-> 1]
    /\ chans = [w \in Watchers |-> <<>>]
    /\ watchers = [w \in Watchers |->
                     IF w = 1
                     THEN [pc |-> "watching", filter |-> Wildcard,
                           id |-> ListenerID(FirstReading)]
                     ELSE [pc |-> "idle", filter |-> Wildcard, id |-> 0]]
    /\ now = FirstReading
    /\ ret = Return("WatchServices", "", <<>>)
    /\ checks = [c \in Checkers |-> NoCheck]
    /\ ctxs = [w \in Watchers |-> "live"]

\* svc-1 is registered, its metadata updated, and it is deregistered, while
\* the first watcher receives the events and the clock advances
NextAlias ==
    \/ \E info \in AliasInfos : RegisterService(info)
    \/ DeregisterService("svc-1")
    \/ \E m \in NotifyMetas : UpdateServiceMetadataInPlace("svc-1", m)
    \/ Receive(1)
    \/ Tick

\* several goroutines send and receive on one base adapter
NextSend ==
    \/ \E t \in Tasks : BaseSendLoad(t)
    \/ \E t \in Tasks : BaseSendStore(t)
    \/ \E t \in Tasks : BaseReceiveLoad(t)
    \/ \E t \in Tasks : BaseReceiveStore(t)

\* goroutines enter the operations of the registry and of the adapter and
\* go through them, at the same time
NextLocks ==
    \/ \E t \in Tasks, script \in Operations : LockStart(t, script)
    \/ \E t \in Tasks : Acquire(t)
    \/ \E t \in Tasks : Drain(t)
    \/ \E t \in Tasks : Release(t)
    \/ \E t \in Tasks : ReadAcquire(t)
    \/ \E t \in Tasks : ReadRelease(t)
    \/ \E t \in Tasks : Waited(t)

\* the registry with its health check loop: Initialize is called once,
\* services are registered and deregistered, looked up and checked by a
\* caller, while the loop checks them with a checker that reports healthy,
\* unhealthy or an error
NextLoop ==
    \/ ~initialized /\ DSInitializeStart
    \/ \E info \in HealthInfos : RegisterService(info)
    \/ \E info \in HealthInfos : DeregisterService(info.ID)
    \/ \E info \in HealthInfos : GetService(info.ID)
    \/ \E l \in LoopIds, order \in UNION {Orders(S) : S \in SUBSET ServiceIDs} :
          LoopTick(l, order)
    \/ \E l \in LoopIds : LoopCheckRead(l)
    \/ \E l \in LoopIds, healthy, probeErr \in BOOLEAN :
          LoopCheckUpdate(l, healthy, probeErr)
    \/ \E info \in HealthInfos : CheckServiceHealthRead(1, info.ID)
    \/ \E healthy, probeErr \in BOOLEAN :
          CheckServiceHealthUpdate(1, healthy, probeErr)

SpecLoop == InitWatch /\ [][NextLoop]_vars

\* a service registered with two metadata keys, and the maps merged into it:
\* none of its keys, one of them, a new one, both
MergeInfos == {MakeInfo("svc-1", Meta({"env", "zone"}, "dev"), "running")}
MergeMetas ==
    {Meta({}, ""), Meta({"env"}, "prod"), Meta({"tier"}, "gold"),
     Meta({"env", "zone"}, "test")}

\* the metadata of a service, registered or not, is updated, whoever
\* listens
NextMerge ==
    \/ \E info \in MergeInfos : RegisterService(info)
    \/ \E info \in MergeInfos : DeregisterService(info.ID)
    \/ \E id \in ServiceIDs, m \in MergeMetas : UpdateServiceMetadata(id, m)

SpecMerge == InitNotify /\ [][NextMerge]_vars

\* an adapter with any pool size and no metrics collector
InitRestart ==
    /\ \E cfg \in [PoolSize : 0..MaxPoolSize] : NewGRPCAdapter(cfg)
    /\ NewDiscoveryService(DefaultDiscoveryConfig)
    /\ NewBridge(FALSE)

\* callers call and stream to either target, one after the other, before
\* and after the adapter is stopped
NextRestart ==
    \/ \E target \in Targets, tlsErr \in BOOLEAN, failAt \in 0..MaxPoolSize :
          Call(target, tlsErr, failAt, NilError)
    \/ \E target \in Targets, tlsErr \in BOOLEAN, failAt \in 0..MaxPoolSize :
          Stream(target, tlsErr, failAt)
    \/ Stop

SpecRestart == InitRestart /\ [][NextRestart]_vars

\* the services checked by the default checker: svc-1 registered as
\* running or as failed, svc-2 as starting
DefaultInfos ==
    {MakeInfo("svc-1", Meta({}, ""), "running"),
     MakeInfo("svc-1", Meta({}, ""), "failed"),
     MakeInfo("svc-2", Meta({"env"}, "prod"), "starting")}

\* the registry with the default health checker: services are registered
\* and registered again with another status, svc-1 is deregistered, while
\* the loop checks every service, one caller checks svc-1 and one watcher
\* listens
NextDefault ==
    \/ ~initialized /\ DSInitializeStart
    \/ \E info \in DefaultInfos : RegisterService(info)
    \/ DeregisterService("svc-1")
    \/ WatchServicesStore(1, Wildcard)
    \/ \E order \in UNION {Orders(S) : S \in SUBSET ServiceIDs} :
          WatchServicesReplay(1, order)
    \/ \E l \in LoopIds, order \in UNION {Orders(S) : S \in SUBSET ServiceIDs} :
          LoopTick(l, order)
    \/ \E l \in LoopIds : LoopCheckRead(l)
    \/ \E l \in LoopIds, timedOut \in BOOLEAN : DefaultLoopCheck(l, timedOut)
    \/ CheckServiceHealthRead(1, "svc-1")
    \/ \E timedOut \in BOOLEAN : DefaultCheck(1, timedOut)

SpecDefault == InitWatch /\ [][NextDefault]_vars

\* no listener is stored
Quiet == DOMAIN eventListeners = {}

\* everything that is done to a registry: svc-1 and svc-2 are registered,
\* svc-2 is deregistered, svc-1 is looked up and given metadata, the loop
\* checks them with a checker that reports unhealthy, time passes, the
\* registry is stopped and initialized again, and a watcher watches and
\* unwatches between the changes of the registry
NextKeep ==
    \/ ~initialized /\ DSInitializeStart
    \/ Quiet /\ \E info \in HealthInfos : RegisterService(info)
    \/ Quiet /\ DeregisterService("svc-2")
    \/ GetService("svc-1")
    \/ Quiet /\ \E metadata \in NotifyMetas : UpdateServiceMetadata("svc-1", metadata)
    \/ \E l \in LoopIds, order \in UNION {Orders(S) : S \in SUBSET ServiceIDs} :
          LoopTick(l, order)
    \/ \E l \in LoopIds : LoopCheckRead(l)
    \/ Quiet /\ \E l \in LoopIds : LoopCheckUpdate(l, FALSE, FALSE)
    \/ \E l \in LoopIds : LoopExit(l)
    \/ WatchServicesStore(1, [Wildcard EXCEPT !.ServiceType = "http"])
    \/ WatchServicesReplay(1, <<>>)
    \/ watchers[1].pc = "watching" /\ UnwatchServices(watchers[1].id)
    \/ Tick
    \/ StopSignal
    \/ StopJoin

SpecKeep == InitWatch /\ [][NextKeep]_vars

\* a watcher whose channel never fills: services are registered and
\* deregistered while every channel has room, the watcher calls
\* WatchServices when the replay fits into its channel, and its owner takes
\* the events
NextDup ==
    \/ DSInitialize
    \/ Roomy /\ \E info \in HealthInfos : RegisterService(info)
    \/ Roomy /\ \E id \in ServiceIDs : DeregisterService(id)
    \/ WatchServicesStore(1, Wildcard)
    \/ \E order \in UNION {Orders(S) : S \in SUBSET ServiceIDs} :
          /\ Len(chans[1]) + Len(order) <= SinkCap
          /\ WatchServicesReplay(1, order)
    \/ Consume(1)

SpecDup == InitWatch /\ [][NextDup]_vars

\* the calls that goroutines make at the same time on svc-1: registration,
\* deregistration, and the status updates that health checks ask for
MutatingCalls ==
    {MutatingCall("register", MakeInfo("svc-1", Meta({}, ""), "running"), ""),
     MutatingCall("deregister", MakeInfo("svc-1", Meta({}, ""), ""), "")}
    \cup {MutatingCall("status", MakeInfo("svc-1", Meta({}, ""), ""), s) :
             s \in {"running", "failed"}}

\* the watchers have called WatchServices on the empty registry, each at a
\* clock reading of its own, and the clock stands at its last reading;
\* then goroutines mutate the registry at the same time while the owners
\* of the channels take the events
InitOrder ==
    /\ NewGRPCAdapter([PoolSize |-> 0])
    /\ NewBridge(TRUE)
    /\ dconfig = DefaultDiscoveryConfig
    /\ initialized = TRUE
    /\ services = <<>>
    /\ \E L \in SUBSET {w \in Watchers : FirstReading + w - 1 \in ClockReadings} :
          /\ eventListeners =
                [lid \in {ListenerID(FirstReading + w - 1) : w \in L} |->
                    CHOOSE w \in L : ListenerID(FirstReading + w - 1) = lid]
          /\ watchers =
                [w \in Watchers |->
                    IF w \in L
                    THEN [pc |-> "watching", filter |-> Wildcard,
                          id |-> ListenerID(FirstReading + w - 1)]
                    ELSE [pc |-> "idle", filter |-> Wildcard, id |-> 0]]
    /\ chans = [w \in Watchers |-> <<>>]
    /\ now = FirstReading + MaxTime - 1
    /\ ret = Return("WatchServices", "", <<>>)
    /\ checks = [c \in Checkers |-> NoCheck]
    /\ ctxs = [w \in Watchers |-> "live"]

NextOrder ==
    \/ \E t \in Tasks, op \in MutatingCalls : MutLock(t, op)
    \/ \E t \in Tasks : MutApply(t)
    \/ \E t \in Tasks : MutNotify(t)
    \/ \E t \in Tasks : MutUnlock(t)
    \/ \E w \in Watchers : Consume(w)

SpecOrder == InitOrder /\ [][NextOrder]_vars

\* Initialize and Stop are called in any order, one Stop at a time, while
\* svc-1 is registered, a watcher starts to watch and the loops tick, check
\* and see stopChan closed
NextRestartRegistry ==
    \/ DSInitializeStart
    \/ StopSignal
    \/ StopJoin
    \/ \E l \in LoopIds : LoopExit(l)
    \/ \E l \in LoopIds, order \in UNION {Orders(S) : S \in SUBSET ServiceIDs} :
          LoopTick(l, order)
    \/ \E l \in LoopIds : LoopCheckRead(l)
    \/ \E l \in LoopIds, healthy \in BOOLEAN : LoopCheckUpdate(l, healthy, FALSE)
    \/ \E info \in NotifyInfos : RegisterService(info)
    \/ WatchServicesStore(1, Wildcard)
    \/ \E order \in UNION {Orders(S) : S \in SUBSET ServiceIDs} :
          WatchServicesReplay(1, order)

SpecRestartRegistry == InitWatch /\ [][NextRestartRegistry]_vars

SpecAdapter == InitAdapter /\ [][NextAdapter]_vars

\* every goroutine is scheduled, and a goroutine waiting for a mutex gets it
\* when it is released again and again (sync.Mutex hands the mutex to the
\* goroutine that waits longest once it has waited for 1ms)
SpecLocks ==
    /\ InitWatch
    /\ [][NextLocks]_vars
    /\ \A t \in Tasks : SF_vars(LockStep(t))

SpecSend == InitWatch /\ [][NextSend]_vars

SpecAlias == InitAlias /\ [][NextAlias]_vars

SpecRace == InitRace /\ [][NextRace]_vars

SpecPool == InitPool /\ [][NextPool]_vars

SpecLifecycle == InitWatch /\ [][NextLifecycle]_vars

SpecLatency == InitWatch /\ [][NextLatency]_vars

SpecNotify == InitNotify /\ [][NextNotify]_vars
SpecHealth == InitRegistry /\ [][NextHealth]_vars
SpecCall == InitCall /\ [][NextCall]_vars
SpecStop == InitAdapter /\ [][NextStop]_vars
SpecServe == InitCall /\ [][NextServe]_vars
SpecBase == InitWatch /\ [][NextBase]_vars

\* the goroutine WatchServices starts is scheduled: once its context is
\* done it runs
SpecUnwatch ==
    /\ InitWatch
    /\ [][NextUnwatch]_vars
    /\ \A w \in Watchers : WF_vars(ContextDone(w))

SpecRegistry == InitRegistry /\ [][NextRegistry]_vars

SpecWatch == InitWatch /\ [][NextWatch]_vars

(***************************************************************************)
(* Properties of the connection pool and of getConnection (SpecAdapter).   *)
(***************************************************************************)
PoolIds == 1..Len(pools)

\* the connections dialed for pool p, and the k-th of them (k from 0)
DialedFor(p) == {c \in 1..Len(conns) : conns[c].pool = p}

DialedAt(p, k) ==
    CHOOSE c \in DialedFor(p) :
        Cardinality({d \in DialedFor(p) : d < c}) = k

\* the number of Get calls among the first n of pool p that found a connection
ServedBefore(p, n) ==
    Cardinality({j \in 1..n : getLog[p][j].held > 0})

\* C1: ConnectionPool.Initialize is all-or-nothing: when it returns without
\* error the pool holds exactly `size` connections, all open; when it returns
\* an error the pool holds none and every connection dialed in the attempt
\* is closed; and a pool whose Initialize failed is never in the pool map.
C1_InitializeAllOrNothing ==
    /\ \A p \in PoolIds :
          IF initLog[p].err
          THEN /\ initLog[p].held = 0
               /\ initLog[p].open = 0
               /\ initLog[p].dialed < pools[p].size
          ELSE /\ initLog[p].held = pools[p].size
               /\ initLog[p].open = pools[p].size
               /\ initLog[p].dialed = pools[p].size
    /\ \A tg \in Targets :
          connections[tg] # NoPool => ~initLog[connections[tg]].err

\* C1 witness: a dial failed at a position k >= 1, so connections had been
\* opened in the attempt, and they were closed again.
C1_Witness ==
    \E p \in PoolIds :
        /\ initLog[p].err
        /\ initLog[p].dialed >= 1
        /\ \A c \in DialedFor(p) : conns[c].closed = 1
        /\ \A tg \in Targets : connections[tg] # p

\* C2: on a pool of N >= 1 connections the i-th Get (from 0) returns
\* connection i mod N and leaves the cursor at (i + 1) mod N; a Get on a pool
\* holding no connection fails with the pool-empty error.
C2_GetRoundRobin ==
    \A p \in PoolIds :
        /\ \A i \in 1..Len(getLog[p]) :
              LET e == getLog[p][i]
                  n == ServedBefore(p, i - 1)
              IN  IF e.held = 0
                  THEN /\ e.err = "no connections available in pool"
                       /\ e.conn = NoConn
                  ELSE /\ e.err = ""
                       /\ e.idx = n % e.held
                       /\ e.conn = DialedAt(p, n % e.held)
        /\ (~initLog[p].err /\ pools[p].size >= 1) =>
              pools[p].currentIndex =
                  ServedBefore(p, Len(getLog[p])) % pools[p].size

\* C2 witness: a pool of N >= 1 connections has served N + 1 Gets (the
\* cursor has wrapped), and some Get met an empty pool.
C2_Witness ==
    /\ \E p \in PoolIds :
          /\ pools[p].size >= 1
          /\ ServedBefore(p, Len(getLog[p])) = pools[p].size + 1
    /\ \E p \in PoolIds : \E i \in 1..Len(getLog[p]) : getLog[p][i].held = 0

\* C3: while the adapter has not been stopped, concurrent getConnection
\* calls for a target store at most one pool for it; when no dial failed,
\* exactly one pool is constructed for it, with exactly PoolSize dials; and
\* every caller that reaches pool.Get uses the pool of the map.
C3_OnePoolPerTarget ==
    stops = 0 =>
      \A tg \in Targets :
        LET made   == {p \in PoolIds : pools[p].target = tg}
            stored == {p \in made : ~initLog[p].err}
        IN  /\ Cardinality(stored) <= 1
            /\ (connections[tg] # NoPool) = (stored # {})
            /\ connections[tg] # NoPool => stored = {connections[tg]}
            /\ (made # {} /\ made = stored) =>
                  /\ Cardinality(made) = 1
                  /\ Cardinality({c \in 1..Len(conns) : conns[c].pool \in made})
                        = config.PoolSize
            /\ \A t \in Tasks :
                  (tasks[t].target = tg /\ tasks[t].pc = "get") =>
                      tasks[t].pool = connections[tg]
            /\ \A p \in made : getLog[p] # <<>> => p = connections[tg]

\* C3 witness: two callers both missed the pool at the first lookup (they
\* ran concurrently on an unseen target); one has created the pool, the
\* other has found it under the write lock, and the first of them has
\* already been served by it.
C3_Witness ==
    /\ stops = 0
    /\ \E t1, t2 \in Tasks :
          /\ t1 # t2
          /\ tasks[t1].pc = "get" /\ tasks[t2].pc = "get"
          /\ tasks[t1].target = tasks[t2].target
          /\ ~tasks[t1].ok /\ ~tasks[t2].ok
          /\ tasks[t1].pool = tasks[t2].pool
          /\ config.PoolSize = 2
          /\ Cardinality({p \in PoolIds :
                            pools[p].target = tasks[t1].target}) = 1

(***************************************************************************)
(* Properties of the service registry (SpecRegistry, SpecWatch).           *)
(***************************************************************************)
\* channel w is the sink of a stored listener
Listening(w) == \E lid \in DOMAIN eventListeners : eventListeners[lid] = w

\* the content of channel w after `event` was offered to every listener
Delivered(w, event) ==
    IF Listening(w) /\ Len(chans[w]) < SinkCap
    THEN Append(chans[w], event)
    ELSE chans[w]

\* the four fields RegisterService requires are all set
Complete(info) ==
    info.ID # "" /\ info.Name # "" /\ info.Address # "" /\ info.Port # 0

\* C4: on an initialized registry, RegisterService of a valid info whose ID
\* is already registered replaces that entry by the new info, leaves every
\* other entry and the number of entries unchanged, and emits one `updated`
\* event (never `added`), which every listener with room receives; and in
\* every reachable state there is at most one entry per ID.
C4_ReRegisterReplaces ==
    /\ [](\A x \in ServiceIDs :
             Cardinality({k \in DOMAIN services : services[k].ID = x}) <= 1)
    /\ [][\A info \in InfoInputs :
             (/\ initialized
              /\ Complete(info)
              /\ info.ID \in DOMAIN services
              /\ RegisterService(info))
             => /\ DOMAIN services' = DOMAIN services
                /\ Cardinality(DOMAIN services') = Cardinality(DOMAIN services)
                /\ services'[info.ID] = info
                /\ \A k \in DOMAIN services \ {info.ID} : services'[k] = services[k]
                /\ ret'.err = ""
                /\ ret'.emitted = <<"updated">>
                /\ \A w \in Watchers :
                      chans'[w] = Delivered(w, Event("updated", info))]_vars

\* C4 witness: with two services registered, one of them was registered
\* again with other content; the map still has the two entries, the entry
\* is the new info, and the watcher holds the `updated` event.
C4_Witness ==
    /\ ret = Return("RegisterService", "", <<"updated">>)
    /\ DOMAIN services = ServiceIDs
    /\ services["svc-1"] = MakeInfo("svc-1", Meta({"env"}, "prod"), "failed")
    /\ \E w \in Watchers :
          chans[w] = <<Event("updated", services["svc-1"])>>

\* C5: on an initialized registry, RegisterService of an info with an empty
\* ID, an empty Name, an empty Address or Port 0 fails with the
\* invalid-service-information error, leaves the service map unchanged and
\* delivers no event to any listener.
C5_InvalidInfoRejected ==
    [][\A info \in InfoInputs :
          (/\ initialized
           /\ info.ID = "" \/ info.Name = "" \/ info.Address = "" \/ info.Port = 0
           /\ RegisterService(info))
          => /\ ret'.err = ErrInvalidServiceInfo
             /\ ret'.emitted = <<>>
             /\ services' = services
             /\ chans' = chans]_vars

\* C5 witness: an invalid info was refused while a service was registered
\* and a listener with room was watching.
C5_Witness ==
    /\ ret = Return("RegisterService", ErrInvalidServiceInfo, <<>>)
    /\ initialized
    /\ DOMAIN services # {}
    /\ \E w \in Watchers :
          Listening(w) /\ watchers[w].pc = "watching" /\ chans[w] = <<>>

\* C6: on an initialized registry, RegisterService of a valid info whose ID
\* is not registered inserts the entry and changes no other; the stored
\* Status is the configured default when the caller left it empty and the
\* caller's otherwise; LastUpdated is the clock's millisecond reading; one
\* `added` event carrying the stored entry is emitted and reaches every
\* listener with room; and under the default configuration FindServices by
\* the name of an entry stored with the default status returns exactly that
\* entry, with Status `running`.
C6_NewRegistration ==
    [][\A info \in InfoInputs :
          (/\ initialized
           /\ Complete(info)
           /\ info.ID \notin DOMAIN services
           /\ RegisterService(info))
          => LET stored == services'[info.ID]
                 byName == [Wildcard EXCEPT !.Name = info.Name]
             IN  /\ DOMAIN services' = DOMAIN services \cup {info.ID}
                 /\ \A k \in DOMAIN services : services'[k] = services[k]
                 /\ stored.Status = IF info.Status = ""
                                    THEN dconfig.DefaultServiceStatus
                                    ELSE info.Status
                 /\ stored.LastUpdated = now \div NanosPerMilli
                 /\ stored.LastUpdated > 0
                 /\ stored = [info EXCEPT !.Status = stored.Status,
                                          !.LastUpdated = stored.LastUpdated]
                 /\ ret'.err = ""
                 /\ ret'.emitted = <<"added">>
                 /\ \A w \in Watchers :
                       chans'[w] = Delivered(w, Event("added", stored))
                 /\ (dconfig = DefaultDiscoveryConfig /\ info.Status = "")
                       => /\ FindServicesResult(initialized', services', byName)
                               = [err |-> "", out |-> {stored}]
                          /\ stored.Status = "running"]_vars

\* C6 witness: under the default configuration svc-1 was registered with the
\* status `failed` and kept it, then svc-2 was registered without a status
\* and is stored as `running`, stamped, and the watcher holds its `added`
\* event.
C6_Witness ==
    /\ dconfig = DefaultDiscoveryConfig
    /\ ret = Return("RegisterService", "", <<"added">>)
    /\ DOMAIN services = ServiceIDs
    /\ services["svc-1"].Status = "failed"
    /\ services["svc-1"].LastUpdated > 0
    /\ services["svc-2"].Status = "running"
    /\ services["svc-2"].LastUpdated > 0
    /\ \E w \in Watchers :
          chans[w] = <<Event("added", services["svc-2"])>>

\* C7: on an initialized registry, DeregisterService of an ID that is not
\* registered fails with the not-found error, changes neither the map nor
\* any channel and emits no event; of a registered ID it removes exactly
\* that entry, emits one `removed` event carrying the removed entry, which
\* every listener with room receives, and afterwards GetService of the ID
\* fails with not-found and no FindServices result contains the entry.
C7_Deregister ==
    [][\A id \in ServiceIDs :
          (initialized /\ DeregisterService(id))
          => IF id \notin DOMAIN services
             THEN /\ ret'.err = ErrServiceNotFound
                  /\ ret'.emitted = <<>>
                  /\ services' = services
                  /\ chans' = chans
             ELSE /\ DOMAIN services' = DOMAIN services \ {id}
                  /\ \A k \in DOMAIN services' : services'[k] = services[k]
                  /\ ret'.err = ""
                  /\ ret'.emitted = <<"removed">>
                  /\ \A w \in Watchers :
                        chans'[w] = Delivered(w, Event("removed", services[id]))
                  /\ GetServiceResult(initialized', services', id)
                        = [err |-> ErrServiceNotFound, out |-> {}]
                  /\ \A f \in AllFilters :
                        \A s \in FindServicesResult(initialized', services', f).out :
                            s.ID # id]_vars

\* C7 witness: of two registered services one was deregistered, the watcher
\* holds its `removed` event, the other service is still registered, and a
\* second DeregisterService of the same ID has just failed with not-found.
C7_Witness ==
    /\ ret = Return("DeregisterService", ErrServiceNotFound, <<>>)
    /\ \E id \in ServiceIDs :
          /\ DOMAIN services = ServiceIDs \ {id}
          /\ \E w \in Watchers :
                /\ Len(chans[w]) = 1
                /\ chans[w][1].Type = "removed"
                /\ chans[w][1].ServiceInfo.ID = id

\* the filter's key/value pairs are all present in the service's metadata
MetadataIncluded(f, s) ==
    \A k \in DOMAIN f.Metadata :
        k \in DOMAIN s.Metadata /\ s.Metadata[k] = f.Metadata[k]

\* C8: on an initialized registry FindServices(filter) succeeds and returns
\* exactly the registered services whose Type, Version, Name and Address
\* equal the filter's non-empty fields ServiceType, Version, Name and Address
\* and whose Metadata holds every key/value pair of the filter's Metadata; a
\* filter with every field empty returns every service, and a service that
\* lacks a key of the filter's metadata is not returned.
C8_FindServicesExact ==
    initialized =>
        /\ \A f \in AllFilters :
              FindServicesResult(initialized, services, f) =
                  [err |-> "",
                   out |-> {services[k] : k \in
                              {x \in DOMAIN services :
                                  /\ f.ServiceType = "" \/ f.ServiceType = services[x].Type
                                  /\ f.Version = "" \/ f.Version = services[x].Version
                                  /\ f.Name = "" \/ f.Name = services[x].Name
                                  /\ f.Address = "" \/ f.Address = services[x].Address
                                  /\ MetadataIncluded(f, services[x])}}]
        /\ FindServicesResult(initialized, services, Wildcard).out
              = {services[k] : k \in DOMAIN services}
        /\ \A f \in AllFilters : \A k \in DOMAIN services :
              (\E key \in DOMAIN f.Metadata : key \notin DOMAIN services[k].Metadata)
                  => services[k] \notin FindServicesResult(initialized, services, f).out

\* C8 witness: FindServices has returned while svc-1, without metadata, and
\* svc-2, with env = prod, were registered; the filter {env: prod} selects
\* svc-2 alone, and the filter on the name echo selects svc-1 alone.
C8_Witness ==
    /\ ret = Return("FindServices", "", <<>>)
    /\ DOMAIN services = ServiceIDs
    /\ DOMAIN services["svc-1"].Metadata = {}
    /\ FindServicesResult(initialized, services,
                          [Wildcard EXCEPT !.Metadata = Meta({"env"}, "prod")]).out
          = {services["svc-2"]}
    /\ FindServicesResult(initialized, services,
                          [Wildcard EXCEPT !.Name = "echo"]).out
          = {services["svc-1"]}

\* C9: every event in the channel of a watcher registered through
\* WatchServices is about a service that matches the filter the watcher
\* passed, whether the event was replayed or came from a later mutation.
C9_OnlyMatchingEvents ==
    \A w \in Watchers :
        watchers[w].pc \in {"replay", "watching"} =>
            \A i \in 1..Len(chans[w]) :
                Matches(watchers[w].filter, chans[w][i].ServiceInfo)

\* the elements of a sequence
Range(seq) == {seq[i] : i \in 1..Len(seq)}

\* the events a replay of the services `order` lists appends to a channel
\* with room for `room` events
RECURSIVE Replayed(_, _, _)
Replayed(order, i, room) ==
    IF i > Len(order) \/ room = 0
    THEN <<>>
    ELSE <<Event("added", services[order[i]])>> \o Replayed(order, i + 1, room - 1)

\* C10: WatchServices replays, before it returns, one `added` event for each
\* registered service matching the filter, as far as the channel has room,
\* and none when no service matches; and when a service matching the filter
\* of a watcher whose WatchServices call has returned is registered while
\* the watcher's channel has room, the channel receives the `added` event of
\* that service.
C10_ReplayThenAdded ==
    [][/\ \A w \in Watchers :
            \A order \in UNION {Orders(S) : S \in SUBSET ServiceIDs} :
               WatchServicesReplay(w, order)
               => /\ Range(order) = {k \in DOMAIN services :
                                        Matches(watchers[w].filter, services[k])}
                  /\ chans'[w] = chans[w] \o
                                   Replayed(order, 1, SinkCap - Len(chans[w]))
                  /\ Range(order) = {} => chans'[w] = chans[w]
       /\ \A info \in InfoInputs :
            (/\ initialized
             /\ Complete(info)
             /\ info.ID \notin DOMAIN services
             /\ RegisterService(info))
            => \A w \in Watchers :
                  (/\ watchers[w].pc = "watching"
                   /\ Matches(watchers[w].filter, services'[info.ID])
                   /\ Len(chans[w]) < SinkCap)
                  => chans'[w] = Append(chans[w],
                                        Event("added", services'[info.ID]))]_vars


\* a step of one of the four kinds of mutation, on the service `id`
Mutation(id) ==
    \/ \E info \in NotifyInfos : info.ID = id /\ RegisterService(info)
    \/ DeregisterService(id)
    \/ \E c \in Checkers, healthy \in BOOLEAN :
          checks[c].id = id /\ CheckServiceHealthUpdate(c, healthy, FALSE)
    \/ \E m \in NotifyMetas : UpdateServiceMetadata(id, m)

\* C11: a registry mutation (register, deregister, health status update,
\* metadata update) that emits an event leaves every full channel as it
\* was, appends the event to every listening channel that has room, and
\* touches no other channel, whatever the set of listeners and however
\* many of their channels are full; and each mutation can always take its
\* step and return, full channels or not.
C11_DeliveryNeverBlocks ==
    /\ [](\A info \in NotifyInfos :
             /\ ENABLED RegisterService(info)
             /\ ENABLED DeregisterService(info.ID)
             /\ \A m \in NotifyMetas : ENABLED UpdateServiceMetadata(info.ID, m)
             /\ \A c \in Checkers :
                   checks[c].pc = "probe"
                   => \A healthy \in BOOLEAN :
                         ENABLED CheckServiceHealthUpdate(c, healthy, FALSE))
    /\ [][\A id \in ServiceIDs :
             (Mutation(id) /\ ret'.emitted # <<>>)
             => LET event == Event(ret'.emitted[1],
                                   IF id \in DOMAIN services'
                                   THEN services'[id] ELSE services[id])
                IN  /\ Len(ret'.emitted) = 1
                    /\ ret'.err = ""
                    /\ \A w \in Watchers :
                          /\ (Listening(w) /\ Len(chans[w]) = SinkCap)
                             => chans'[w] = chans[w]
                          /\ (Listening(w) /\ Len(chans[w]) < SinkCap)
                             => chans'[w] = Append(chans[w], event)
                          /\ ~Listening(w) => chans'[w] = chans[w]]_vars

\* C11 witness: a health check has just changed the status of svc-1 while
\* two watchers were listening; the channel of one was full of earlier
\* events and still holds exactly those, the other holds the `updated`
\* event.
C11_Witness ==
    /\ ret = Return("CheckServiceHealth", "", <<"updated">>)
    /\ "svc-1" \in DOMAIN services
    /\ \E w1, w2 \in Watchers :
          /\ w1 # w2
          /\ Listening(w1) /\ Listening(w2)
          /\ chans[w1] = EarlierEvents(SinkCap)
          /\ chans[w2] # <<>>
          /\ chans[w2][Len(chans[w2])] = Event("updated", services["svc-1"])


\* the service map with the clock stamps left out
Unstamped(svcs) == [id \in DOMAIN svcs |-> [svcs[id] EXCEPT !.LastUpdated = 0]]

\* C12: a health check of a registered service that read the stored status
\* `read` changes the status in two ways only: a healthy result with
\* read # running makes it `running`, an unhealthy result with
\* read = running makes it `failed`; any other result, and a probe error,
\* leaves the service map as it was. Nothing but the status and the stamp
\* of that one entry is written; a step that changes the status emits
\* exactly one `updated` event carrying the new entry, and a step that does
\* not change it emits none.
C12_HealthCheckStatus ==
    [][\A c \in Checkers, healthy, probeErr \in BOOLEAN :
          (CheckServiceHealthUpdate(c, healthy, probeErr)
           /\ checks[c].id \in DOMAIN services)
          => LET id   == checks[c].id
                 read == checks[c].status
             IN  /\ DOMAIN services' = DOMAIN services
                 /\ Unstamped(services') =
                       [Unstamped(services) EXCEPT ![id].Status = services'[id].Status]
                 /\ services'[id].Status =
                       IF probeErr THEN services[id].Status
                       ELSE IF healthy /\ read # "running" THEN "running"
                       ELSE IF ~healthy /\ read = "running" THEN "failed"
                       ELSE services[id].Status
                 /\ (probeErr \/ (healthy /\ read = "running")
                              \/ (~healthy /\ read # "running"))
                    => services' = services
                 /\ IF services'[id].Status # services[id].Status
                    THEN /\ ret'.emitted = <<"updated">>
                         /\ \A w \in Watchers :
                               chans'[w] = Delivered(w, Event("updated", services'[id]))
                    ELSE /\ ret'.emitted = <<>>
                         /\ chans' = chans]_vars

\* C12 witness: svc-2 was registered as starting, a health check read that
\* status, the probe reported healthy, and the check has returned: the
\* entry is `running` and the watcher holds the one `updated` event.
C12_Witness ==
    /\ ret = Return("CheckServiceHealth", "", <<"updated">>)
    /\ "svc-2" \in DOMAIN services
    /\ services["svc-2"].Status = "running"
    /\ Listening(1)
    /\ chans[1] = <<Event("updated", services["svc-2"])>>


\* C13: on an initialized registry UnwatchServices of a stored handle
\* removes that listener, and only that one, before it returns; of a
\* handle that is not stored (never issued, or already removed) it fails
\* with listener-not-found and leaves the listener set as it was. A
\* watcher that is no longer listening is never listening again and no
\* registry mutation changes its channel. And a watcher whose context is
\* cancelled is eventually not listening.
C13_ListenerRemoved ==
    /\ [][\A lid \in Handles :
             (initialized /\ UnwatchServices(lid))
             => IF lid \in DOMAIN eventListeners
                THEN /\ ret'.err = ""
                     /\ DOMAIN eventListeners' = DOMAIN eventListeners \ {lid}
                     /\ \A x \in DOMAIN eventListeners' :
                           eventListeners'[x] = eventListeners[x]
                ELSE /\ ret'.err = ErrListenerNotFound
                     /\ eventListeners' = eventListeners]_vars
    /\ [][\A w \in Watchers :
             (watchers[w].pc = "watching" /\ ~Listening(w))
             => /\ ~Listening(w)'
                /\ (\E id \in ServiceIDs : Mutation(id)) => chans'[w] = chans[w]]_vars
    /\ \A w \in Watchers :
          (watchers[w].pc = "watching" /\ ctxs[w] = "cancelled") ~> ~Listening(w)

\* C13 witness: the watcher was removed by UnwatchServices, its context
\* still live, and a second call with the same handle has just failed with
\* listener-not-found; the service registered in between is not in its
\* channel.
C13_Witness ==
    /\ ret = Return("UnwatchServices", ErrListenerNotFound, <<>>)
    /\ watchers[1].pc = "watching"
    /\ ctxs[1] = "live"
    /\ ~Listening(1)
    /\ "svc-1" \in DOMAIN services
    /\ chans[1] = <<>>


\* the 16 kinds of the canonical taxonomy
CanonicalKinds ==
    {"INVALID_ARGUMENT", "NOT_FOUND", "ALREADY_EXISTS", "PERMISSION_DENIED",
     "RESOURCE_EXHAUSTED", "FAILED_PRECONDITION", "ABORTED", "OUT_OF_RANGE",
     "UNIMPLEMENTED", "INTERNAL", "UNAVAILABLE", "DATA_LOSS",
     "UNAUTHENTICATED", "DEADLINE_EXCEEDED", "CANCELED", "UNKNOWN"}

\* C14: every non-nil error Call or Stream returns is a BridgeError whose
\* Code is one of the 16 canonical kinds, whether the connection could not
\* be obtained, the invocation returned a transport status, or it returned
\* an error carrying no status.
C14_CanonicalErrorsOnly ==
    callRet.err # NilError
    => /\ callRet.err.type = "BridgeError"
       /\ callRet.err.Code \in CanonicalKinds

\* the 15 codes with a kind of their own, and that kind
NamedKinds ==
    {<<"InvalidArgument", "INVALID_ARGUMENT">>, <<"NotFound", "NOT_FOUND">>,
     <<"AlreadyExists", "ALREADY_EXISTS">>,
     <<"PermissionDenied", "PERMISSION_DENIED">>,
     <<"ResourceExhausted", "RESOURCE_EXHAUSTED">>,
     <<"FailedPrecondition", "FAILED_PRECONDITION">>, <<"Aborted", "ABORTED">>,
     <<"OutOfRange", "OUT_OF_RANGE">>, <<"Unimplemented", "UNIMPLEMENTED">>,
     <<"Internal", "INTERNAL">>, <<"Unavailable", "UNAVAILABLE">>,
     <<"DataLoss", "DATA_LOSS">>, <<"Unauthenticated", "UNAUTHENTICATED">>,
     <<"DeadlineExceeded", "DEADLINE_EXCEEDED">>, <<"Canceled", "CANCELED">>}

\* C15: what Call returns for what conn.Invoke returned is mapGRPCError of
\* it: nil for nil; for an error with a status, a BridgeError with the
\* message of the status and with the kind named like the code when the
\* code is one of the 15, UNKNOWN for every other code.
C15_MapGRPCErrorTotal ==
    (callRet.op = "Call" /\ callRet.connected)
    => /\ callRet.invoked = NilError => callRet.err = NilError
       /\ callRet.invoked.type = "status"
          => /\ callRet.err.type = "BridgeError"
             /\ callRet.err.Message = callRet.invoked.message
             /\ \A p \in NamedKinds :
                   callRet.invoked.code = p[1] => callRet.err.Code = p[2]
             /\ (\A p \in NamedKinds : callRet.invoked.code # p[1])
                => callRet.err.Code = "UNKNOWN"

\* C15 witness: the invocation returned DeadlineExceeded with a message and
\* Call returned the DEADLINE_EXCEEDED kind with that message.
C15_Witness ==
    /\ callRet.op = "Call"
    /\ callRet.connected
    /\ callRet.invoked = StatusError("DeadlineExceeded", "boom")
    /\ callRet.err.type = "BridgeError"
    /\ callRet.err.Code = "DEADLINE_EXCEEDED"
    /\ callRet.err.Message = "boom"


\* a step in which the server serves a call whose handler panics
PanickingCall == \E handlerErr \in HandlerErrors : ServeUnary(TRUE, handlerErr)

\* the value of the panics counter (nothing is counted without a collector)
PanicsTotal(srv) == srv.counters["grpc.panics_total"]

\* C16 as stated: a call whose handler panics completes with an
\* Internal-coded error, increments the panics counter exactly once and
\* leaves the server serving.
C16_PanicCountedAlways ==
    [][PanickingCall
       => /\ server'.state = "serving"
          /\ server'.call.err.type = "status"
          /\ server'.call.err.code = "Internal"
          /\ PanicsTotal(server') = PanicsTotal(server) + 1]_vars

\* C16, amended: a call whose handler panics completes with an
\* Internal-coded error and no response and leaves the server serving; the
\* panics counter is incremented exactly once when the adapter has a
\* metrics collector and nothing is counted when it has none; and a later
\* call whose handler returns normally gets the handler's response.
C16_PanicRecovered ==
    /\ [][PanickingCall
          => /\ server'.state = "serving"
             /\ server'.call.err = StatusError("Internal", "internal error")
             /\ server'.call.resp = ""
             /\ PanicsTotal(server') =
                   IF server.metrics THEN PanicsTotal(server) + 1
                   ELSE PanicsTotal(server)]_vars
    /\ []((/\ server.call.panicked
            /\ server.counters["grpc.requests_total"] < MaxServed
            /\ stops = 0)
           => ENABLED ServeUnary(FALSE, NilError))
    /\ [][ServeUnary(FALSE, NilError)
          => /\ server'.call.err = NilError
             /\ server'.call.resp = "response"
             /\ PanicsTotal(server') = PanicsTotal(server)]_vars

\* C16 witness: with a metrics collector, a handler has panicked, which was
\* counted once, and the call after it has returned the handler's response.
C16_Witness ==
    /\ server.metrics
    /\ server.state = "serving"
    /\ PanicsTotal(server) = 1
    /\ server.counters["grpc.requests_total"] = 2
    /\ server.call = [panicked |-> FALSE, err |-> NilError, resp |-> "response"]


\* the connections pool.Get has handed out so far
HandedOut ==
    UNION {{getLog[p][i].conn : i \in 1..Len(getLog[p])} : p \in PoolIds} \ {NoConn}

\* no goroutine is inside getConnection
AllIdle == \A t \in Tasks : tasks[t].pc = "idle"

MapEmpty == \A tg \in Targets : connections[tg] = NoPool

\* C17: the locked section of Stop closes every connection of every pool
\* that is in the map and leaves the map empty, the server still serving;
\* the server's state changes only in the step after it, which touches no
\* pool; so when no goroutine is inside getConnection while Stop runs, the
\* map is empty and every connection ever handed out is closed when Stop
\* returns, and as long as the map stays empty after it.
C17_StopClosesAll ==
    /\ [][StopLocked
          => /\ MapEmpty'
             /\ \A tg \in Targets :
                   connections[tg] # NoPool
                   => LET pid == connections[tg]
                      IN  /\ pools'[pid].connections = <<>>
                          /\ \A j \in 1..Len(pools[pid].connections) :
                                conns'[pools[pid].connections[j]].closed > 0
             /\ AllIdle => \A c \in HandedOut' : conns'[c].closed > 0
             /\ server' = server
             /\ server.state = "stopped" => stops > 0]_vars
    /\ [][server'.state # server.state
          => /\ stopper.pc = "draining"
             /\ stopper'.pc = "idle"
             /\ server'.state = "stopped"
             /\ UNCHANGED adapterVars]_vars
    /\ []((stops > 0 /\ stopper.pc = "idle" /\ AllIdle /\ MapEmpty)
          => \A c \in HandedOut : conns[c].closed > 0)

\* C17 witness: Stop has returned with no goroutine inside getConnection;
\* the server is stopped, the map is empty, connections were handed out
\* before and all of them are closed.
C17_Witness ==
    /\ stops = 1
    /\ stopper.pc = "idle"
    /\ server.state = "stopped"
    /\ AllIdle
    /\ MapEmpty
    /\ HandedOut # {}
    /\ \A c \in HandedOut : conns[c].closed = 1


\* C18: the status becomes `stopped` only in a Shutdown call, and once it
\* is `stopped` no Initialize, Connect or Disconnect call changes it.
C18_StoppedTerminal ==
    [][/\ (base.status # "stopped" /\ base'.status = "stopped") => BaseShutdown
       /\ (/\ base.status = "stopped"
           /\ (BaseInitialize \/ BaseConnect \/ BaseDisconnect))
          => base'.status = "stopped"]_vars

\* C19: Connect on an adapter whose status is already `connected` leaves
\* the statistics as they were, ConnectedSince included, and no other
\* lifecycle call (Initialize, Disconnect, Shutdown) writes ConnectedSince.
C19_ConnectIdempotent ==
    [][/\ (base.status = "connected" /\ BaseConnect)
          => base'.stats = base.stats
       /\ (BaseInitialize \/ BaseDisconnect \/ BaseShutdown)
          => base'.stats.ConnectedSince = base.stats.ConnectedSince]_vars

\* C20: setError, from whatever status, sets lastError to the error given,
\* makes the status `error`, adds exactly one to Errors and leaves every
\* other statistic, the message counters among them, as it was.
C20_SetErrorForcesError ==
    [][\A err \in BaseErrors :
          BaseSetError(err)
          => /\ base'.lastError = err
             /\ base'.status = "error"
             /\ base'.stats.Errors = base.stats.Errors + 1
             /\ base'.stats.MessagesSent = base.stats.MessagesSent
             /\ base'.stats.MessagesReceived = base.stats.MessagesReceived
             /\ base'.stats = [base.stats EXCEPT !.Errors = @ + 1]]_vars

\* C20 witness: an adapter that connected, sent a message and was shut
\* down has had two failures recorded: its status is `error`, the last
\* error is the second one, Errors is 2 and the message is still counted.
C20_Witness ==
    /\ base.status = "error"
    /\ base.lastError = PlainError("send timeout")
    /\ base.stats.Errors = 2
    /\ base.stats.MessagesSent = 1
    /\ base.stats.ConnectedSince # 0

\* the average the samples recorded so far give when the first one is taken
\* as it is and every later one is weighted 1 against 9 for the average
RECURSIVE Ewma(_)
Ewma(samples) ==
    IF Len(samples) = 1 THEN samples[1]
    ELSE (Ewma(SubSeq(samples, 1, Len(samples) - 1)) * 9
             + samples[Len(samples)]) \div 10

\* C21: AverageLatency is the 9:1 weighted average of the durations
\* recorded: the first one as it is, every later one d giving
\* (old * 9 + d) / 10, also when the running average is or becomes 0.
C21_LatencyEwma ==
    latencies # <<>> => base.stats.AverageLatency = Ewma(latencies)

\* a call of one of the eight registry operations starts
RegistryCall ==
    \/ \E info \in NotifyInfos : RegisterService(info)
    \/ \E info \in NotifyInfos : DeregisterService(info.ID)
    \/ \E info \in NotifyInfos : GetService(info.ID)
    \/ FindServices(Wildcard)
    \/ WatchServicesRefused(1, FALSE)
    \/ WatchServicesStore(1, Wildcard)
    \/ \E lid \in Handles : UnwatchServices(lid)
    \/ \E info \in NotifyInfos : CheckServiceHealthRead(1, info.ID)
    \/ \E info \in NotifyInfos, m \in NotifyMetas :
          UpdateServiceMetadata(info.ID, m)

\* C22: while the registry is not initialized (before Initialize, after
\* Stop) each of RegisterService, DeregisterService, GetService,
\* FindServices, WatchServices, UnwatchServices, CheckServiceHealth and
\* UpdateServiceMetadata returns the not-initialized error and leaves the
\* service map and the listener set as they are.
C22_NotInitializedRejects ==
    [][~initialized /\ RegistryCall
          => /\ ret'.err = ErrNotInitialized
             /\ UNCHANGED <<services, eventListeners>>]_vars

\* the pool the callers share
ThePool == pools[1]

\* C23: whenever the pool holds at least one connection, its cursor is an
\* index of its connection list: 0 <= currentIndex < len(connections).
C23_CursorInRange ==
    Len(ThePool.connections) > 0
        => ThePool.currentIndex \in 0..(Len(ThePool.connections) - 1)

\* the callers inside one of the pool's methods
Inside == {t \in Tasks : callers[t].pc # "idle"}

\* C24: Initialize, Get and Close of one pool exclude each other, and every
\* Get on a pool that holds N > 0 connections returns the connection at
\* the cursor and leaves the cursor one position further in the cyclic
\* order, so that k concurrent Gets return k consecutive positions and
\* advance the cursor by k mod N.
C24_GetsLinearizable ==
    /\ [](Cardinality(Inside) <= 1)
    /\ [][\A t \in Tasks :
            /\ PoolGetRead(t) /\ Len(ThePool.connections) > 0
                  => /\ callers'[t].pc = "advance"
                     /\ callers'[t].conn =
                           ThePool.connections[ThePool.currentIndex + 1]
            /\ PoolGetAdvance(t)
                  => ThePool'.currentIndex =
                        (callers[t].idx + 1) % Len(ThePool.connections)]_vars

\* the connections the pool holds
Held == {ThePool.connections[i] : i \in 1..Len(ThePool.connections)}

\* C25: Close closes every connection the pool holds and leaves the pool
\* empty, in every state of the pool; no connection is closed more than
\* once; a Get on the pool Close left empty fails with the pool-empty
\* error.
C25_CloseOnce ==
    /\ [](\A c \in 1..Len(conns) : conns[c].closed <= 1)
    /\ [][\A t \in Tasks :
            /\ PoolCloseBody(t)
                  => /\ ThePool'.connections = <<>>
                     /\ \A c \in 1..Len(conns) :
                           conns'[c].closed =
                              IF c \in Held THEN 1 ELSE conns[c].closed
            /\ PoolGetRead(t) /\ ThePool.connections = <<>>
                  => /\ callers'[t].pc = "idle"
                     /\ callers'[t].err = "no connections available in pool"
                     /\ callers'[t].conn = NoConn]_vars

\* a caller has closed the pool, connections were closed by it, and
\* another caller's Get on the empty pool has returned its error
C25_Witness ==
    /\ Inside = {}
    /\ ThePool.connections = <<>>
    /\ \E c \in 1..Len(conns) : conns[c].closed = 1
    /\ \E t, u \in Tasks :
          /\ callers[t].op = "Close"
          /\ callers[u].op = "Get"
          /\ callers[u].err = "no connections available in pool"

\* what the operations on svc-1 do to its entry when each runs alone, from
\* start to end: the entry is its version and status, or NoEntry
NoEntry == [Version |-> "", Status |-> ""]

SerialRegister(e, info) ==
    [Version |-> info.Version,
     Status  |-> IF e = NoEntry /\ info.Status = ""
                 THEN dconfig.DefaultServiceStatus ELSE info.Status]

SerialCheckUnhealthy(e) ==
    IF e # NoEntry /\ e.Status = "running" THEN [e EXCEPT !.Status = "failed"]
    ELSE e

\* the entries the operations of NextRace lead to when they run one after
\* the other, in any order and any number of times
RECURSIVE SerialClosure(_)
SerialClosure(S) ==
    LET T == S \cup {SerialRegister(e, info) : e \in S, info \in RaceInfos}
               \cup {NoEntry}
               \cup {SerialCheckUnhealthy(e) : e \in S}
    IN  IF T = S THEN S ELSE SerialClosure(T)

SerialEntries == SerialClosure({NoEntry})

\* the entry of svc-1
EntryOf(svcs) ==
    IF "svc-1" \in DOMAIN svcs
    THEN [Version |-> svcs["svc-1"].Version, Status |-> svcs["svc-1"].Status]
    ELSE NoEntry

\* C26: concurrent health checks of one service, with registrations and
\* deregistrations between their steps, leave the entry as some serial
\* order of the operations leaves it; a health check that changes the
\* status emits exactly one `updated` event, one that changes nothing
\* emits none; a health check never inserts an entry.
C26_ChecksSerializable ==
    /\ [](EntryOf(services) \in SerialEntries)
    /\ [][\A c \in Checkers, probeErr \in BOOLEAN :
            CheckServiceHealthUpdate(c, FALSE, probeErr)
               => /\ DOMAIN services' \subseteq DOMAIN services
                  /\ ret'.emitted =
                        IF EntryOf(services').Status # EntryOf(services).Status
                        THEN <<"updated">> ELSE <<>>]_vars

\* C27: the Status of every stored service is one of unknown, starting,
\* running, stopping, stopped, failed, draining and maintenance, never
\* empty.
C27_StatusDefined ==
    \A id \in DOMAIN services : services[id].Status \in ServiceStatuses

\* a ServiceChangeEvent as its holder reads it: the ServiceInfo with the
\* contents of the map its Metadata names in the heap h
Snapshot(event, h) ==
    [event EXCEPT !.ServiceInfo.Metadata =
        IF @ = NilMap THEN Meta({}, "") ELSE h[@]]

\* C28: an event that was sent is a snapshot: no later registry operation
\* changes the ServiceInfo it carries, the contents of its Metadata map
\* included, while it waits in a watcher's channel.
C28_EventsImmutable ==
    [][\A w \in Watchers :
          Len(chans'[w]) >= Len(chans[w])
             => \A i \in 1..Len(chans[w]) :
                   Snapshot(chans'[w][i], heap') = Snapshot(chans[w][i], heap)]_vars

\* the sum of f over S
RECURSIVE SumOver(_, _)
SumOver(f, S) ==
    IF S = {} THEN 0
    ELSE LET t == CHOOSE x \in S : TRUE
         IN  f[t] + SumOver(f, S \ {t})

\* C29: concurrent Send and Receive calls lose no update: once the calls
\* have returned, MessagesSent is the number of Send calls and
\* MessagesReceived the number of Receive calls, and status, last error
\* and the other counters are as they were.
C29_NoLostUpdate ==
    (\A t \in Tasks : senders[t].pc = "idle")
        => /\ base.stats.MessagesSent =
                 SumOver([t \in Tasks |-> senders[t].sent], Tasks)
           /\ base.stats.MessagesReceived =
                 SumOver([t \in Tasks |-> senders[t].received], Tasks)
           /\ [base EXCEPT !.stats.MessagesSent = 0,
                           !.stats.MessagesReceived = 0,
                           !.stats.LastActivity = 0] = NewBaseAdapter

\* the locks goroutine t holds
HeldBy(t) == {n \in LockNames : locks[n].w = t \/ t \in locks[n].readers}

\* the order of the locks: the service map before the listeners, the pool
\* map before a pool
Rank(n) ==
    IF n \in {"servicesMutex", "connectionMutex"} THEN 1 ELSE 2

\* a goroutine that asks for a lock holds locks that come before it only
LockOrder ==
    \A t \in Tasks :
       lockers[t] # <<>> /\ Head(lockers[t]).do \in {"Lock", "RLock"}
          => \A n \in HeldBy(t) : Rank(n) < Rank(Head(lockers[t]).on)

\* the goroutines t waits for
WaitsFor(t) ==
    IF lockers[t] = <<>> THEN {}
    ELSE LET step == Head(lockers[t])
         IN  IF step.do = "Lock" THEN {locks[step.on].w} \ {NoHolder}
             ELSE IF step.do = "Drain" THEN locks[step.on].readers
             ELSE IF step.do = "RLock" /\ t \in locks[step.on].blocked
             THEN {locks[step.on].w} \ {NoHolder}
             ELSE {}

\* no goroutine waits, directly or through others, for itself
NoWaitCycle ==
    \A S \in SUBSET Tasks \ {{}} : \E t \in S : WaitsFor(t) \cap S = {}

\* C30: the locks are taken in one order (services before listeners, pool
\* map before pool), no goroutine waits for a lock held by a goroutine that
\* waits for it, and every operation returns.
C30_NoDeadlock ==
    /\ [](LockOrder /\ NoWaitCycle)
    /\ \A t \in Tasks : (lockers[t] # <<>>) ~> (lockers[t] = <<>>)

\* a goroutine holds the services lock and waits for the listeners lock
\* another one holds, which does not wait
C30_Witness ==
    \E t, u \in Tasks :
       /\ locks["servicesMutex"].w = t
       /\ locks["listenersMutex"].w = u
       /\ t \in locks["listenersMutex"].blocked
       /\ WaitsFor(t) = {u}
       /\ WaitsFor(u) = {}

\* C31: when the checker returns an error for a service during the periodic
\* run, the stored status reflects the failure (a `running` service does
\* not stay `running`), the loop goes on with the remaining IDs, and no
\* registry operation other than a health check returns that error.
C31_ProbeErrorReflected ==
    /\ [][\A l \in LoopIds, healthy \in BOOLEAN :
             (LoopCheckUpdate(l, healthy, TRUE)
              /\ loops[l].id \in DOMAIN services)
             => /\ services[loops[l].id].Status = "running"
                   => services'[loops[l].id].Status # "running"
                /\ loops'[l] = Checked(loops[l], ErrProbe)]_vars
    /\ [](ret.err = ErrProbe => ret.op = "CheckServiceHealth")

\* C32: UpdateServiceMetadata(id, m) on a registered service leaves every
\* key of m with m's value and every other stored key with its value,
\* changes no other field of the entry but LastUpdated and no other entry,
\* and emits exactly one `updated` event, offered to every listener; on an
\* unregistered id it fails with not-found, changes nothing and emits none.
C32_MetadataMerge ==
    [][\A id \in ServiceIDs, m \in MergeMetas :
          UpdateServiceMetadata(id, m)
          => IF id \in DOMAIN services
             THEN LET old == services[id].Metadata
                      new == services'[id].Metadata
                  IN  /\ DOMAIN services' = DOMAIN services
                      /\ \A other \in DOMAIN services \ {id} :
                            services'[other] = services[other]
                      /\ DOMAIN new = DOMAIN old \cup DOMAIN m
                      /\ \A k \in DOMAIN m : new[k] = m[k]
                      /\ \A k \in DOMAIN old \ DOMAIN m : new[k] = old[k]
                      /\ [services'[id] EXCEPT
                             !.Metadata = old,
                             !.LastUpdated = services[id].LastUpdated] =
                            services[id]
                      /\ ret'.err = ""
                      /\ ret'.emitted = <<"updated">>
                      /\ \A w \in Watchers :
                            chans'[w] =
                               Delivered(w, Event("updated", services'[id]))
             ELSE /\ ret'.err = ErrServiceNotFound
                  /\ ret'.emitted = <<>>
                  /\ services' = services
                  /\ chans' = chans]_vars

\* C32 witness: svc-1, registered with env and zone, was given a new env
\* and a tier: the stored map holds the three keys, zone with its first
\* value, the call has returned and the first watcher listens
C32_Witness ==
    /\ ret = Return("UpdateServiceMetadata", "", <<"updated">>)
    /\ "svc-1" \in DOMAIN services
    /\ DOMAIN services["svc-1"].Metadata = {"env", "zone", "tier"}
    /\ services["svc-1"].Metadata["env"] = "prod"
    /\ services["svc-1"].Metadata["zone"] = "dev"
    /\ Listening(1)

\* the marks of a call that went through the default chain: the four
\* interceptors entered in the order logging, metrics, recovery, timeout
\* and left in the reverse order (a panic leaves the timeout interceptor by
\* unwinding and is stopped by the recovery interceptor)
ChainTrace(panics) ==
    [i \in 1..4 |->
        [at |-> "enter", of |-> <<"logging", "metrics", "recovery", "timeout">>[i]]]
    \o (IF panics THEN <<>> ELSE <<[at |-> "exit", of |-> "timeout"]>>)
    \o [i \in 1..3 |->
           [at |-> "exit", of |-> <<"recovery", "metrics", "logging">>[i]]]

\* the number the server holds for a counter or for a histogram's observations
Recorded(srv, name) == srv.counters[name]

\* C33 as stated: every unary call enters logging, metrics, recovery and
\* timeout in that order and leaves them in the reverse order, and a call
\* whose handler fails or panics still has the request counter, the
\* duration observation and the error counter recorded, a panic giving an
\* Internal status.
C33_ChainRecordsAlways ==
    [][\A panics \in BOOLEAN, handlerErr \in HandlerErrors :
          ServeUnary(panics, handlerErr)
          => /\ server'.trace = ChainTrace(panics)
             /\ panics => server'.call.err = StatusError("Internal", "internal error")
             /\ (panics \/ handlerErr # NilError)
                => \A name \in {"grpc.requests_total", "grpc.errors_total",
                                "grpc.request_duration_seconds"} :
                      Recorded(server', name) = Recorded(server, name) + 1]_vars

\* C33, amended: the order is as stated; a call whose handler fails or
\* panics has the request counter, the duration observation and the error
\* counter recorded once each when the adapter has a metrics collector, and
\* nothing recorded when it has none; a panic gives an Internal status.
C33_ChainRecords ==
    [][\A panics \in BOOLEAN, handlerErr \in HandlerErrors :
          ServeUnary(panics, handlerErr)
          => /\ server'.trace = ChainTrace(panics)
             /\ server'.state = "serving"
             /\ panics => server'.call.err = StatusError("Internal", "internal error")
             /\ (panics \/ handlerErr # NilError)
                => \A name \in {"grpc.requests_total", "grpc.errors_total",
                                "grpc.request_duration_seconds"} :
                      Recorded(server', name) =
                         IF server.metrics THEN Recorded(server, name) + 1
                         ELSE Recorded(server, name)]_vars

\* C33 witness: with a metrics collector, the first call's handler has
\* panicked: the call went through the chain, got the Internal status and
\* was counted as a request, as an error and as a duration.
C33_Witness ==
    /\ server.metrics
    /\ server.call.panicked
    /\ server.call.err = StatusError("Internal", "internal error")
    /\ server.trace = ChainTrace(TRUE)
    /\ Recorded(server, "grpc.requests_total") = 1
    /\ Recorded(server, "grpc.errors_total") = 1
    /\ Recorded(server, "grpc.request_duration_seconds") = 1

\* C34: the Get at the end of getConnection, whatever Stop, Close and a
\* failed Initialize did since the pool was looked up, either returns a
\* connection that is open when Get returns or fails with the pool-empty
\* error.
C34_GetReturnsOpen ==
    [][\A t \in Tasks :
          GetConnectionGet(t)
          => LET pid == tasks[t].pool
                 e   == getLog'[pid][Len(getLog'[pid])]
             IN  \/ /\ e.conn # NoConn
                    /\ e.err = ""
                    /\ conns'[e.conn].closed = 0
                 \/ /\ e.conn = NoConn
                    /\ e.err = "no connections available in pool"]_vars

\* C34 witness: a pool has handed out a connection, Stop has closed the
\* pool, and a getConnection that had looked the pool up before Stop has
\* called Get since: it got the pool-empty error, not the closed connection
C34_Witness ==
    /\ stops > 0
    /\ \E p \in PoolIds :
          /\ ~initLog[p].err
          /\ Len(getLog[p]) >= 2
          /\ getLog[p][1].conn # NoConn
          /\ conns[getLog[p][1].conn].closed = 1
          /\ getLog[p][Len(getLog[p])].held = 0
          /\ getLog[p][Len(getLog[p])].err = "no connections available in pool"

\* a Call or Stream whose dial succeeds, to a target that has no pool
Dialed(target, failAt) ==
    \/ Call(target, FALSE, failAt, NilError)
    \/ Stream(target, FALSE, failAt)

\* C35: Stop does not disable the client side.  A Call or Stream made after
\* Stop has returned, to a target without a pool and with every dial
\* succeeding, makes a new pool, fills it with config.PoolSize open
\* connections and stores it in the map under its target, so the map is
\* not empty afterwards; and a connection that was open is closed only in
\* a step of Stop.
C35_ClientSurvivesStop ==
    /\ [][\A target \in Targets, failAt \in 0..MaxPoolSize :
            /\ Dialed(target, failAt)
            /\ stops > 0
            /\ ~LookupOk(target)
            /\ failAt >= config.PoolSize
            => LET pid == Len(pools) + 1
               IN  /\ Len(pools') = pid
                   /\ connections'[target] = pid
                   /\ pools'[pid].target = target
                   /\ ~initLog'[pid].err
                   /\ Len(pools'[pid].connections) = config.PoolSize
                   /\ \A j \in 1..Len(pools'[pid].connections) :
                         LET c == pools'[pid].connections[j]
                         IN  conns'[c].pool = pid /\ conns'[c].closed = 0]_vars
    /\ [][\A c \in 1..Len(conns) :
            conns[c].closed = 0 /\ conns'[c].closed # 0
            => stops' = stops + 1]_vars

\* the adapter was stopped and a later call stored a pool whose connections
\* are all open
C35_Witness ==
    /\ stops > 0
    /\ \E target \in Targets :
          /\ LookupOk(target)
          /\ Len(pools[connections[target]].connections) > 0
          /\ \A j \in 1..Len(pools[connections[target]].connections) :
                conns[pools[connections[target]].connections[j]].closed = 0
          /\ \E c \in 1..Len(conns) : conns[c].closed > 0

C38_NoDuplicateAdded ==
    \A w \in Watchers, id \in ServiceIDs :
       \A i, j \in 1..Len(seen[w]) :
          /\ i < j
          /\ seen[w][i].Type = "added" /\ seen[w][i].ServiceInfo.ID = id
          /\ seen[w][j].Type = "added" /\ seen[w][j].ServiceInfo.ID = id
          => \E k \in (i + 1)..(j - 1) :
                seen[w][k].Type = "removed" /\ seen[w][k].ServiceInfo.ID = id

\* whether s can be had from t by leaving elements out
RECURSIVE IsSubsequence(_, _)
IsSubsequence(s, t) ==
    IF s = <<>> THEN TRUE
    ELSE IF t = <<>> THEN FALSE
    ELSE IF Head(s) = Head(t) THEN IsSubsequence(Tail(s), Tail(t))
    ELSE IsSubsequence(s, Tail(t))

\* C39: per listener the events of mutations arrive in the order of the
\* mutations: what the owner of a channel has taken from it, followed by
\* what the channel still holds, is a subsequence of the events of the
\* mutations in the order in which they were applied to the service map
\* (events are left out when the channel is full, none is out of order and
\* none comes twice), however the goroutines that mutate interleave.
C39_EventsInMutationOrder ==
    \A w \in Watchers : IsSubsequence(seen[w] \o chans[w], applied)

\* three mutations were applied, the last by a goroutine that has yet to
\* notify; a listener has taken two different events and one was dropped
\* for it
C39_Witness ==
    /\ Len(applied) = 3
    /\ \E t \in Tasks : muts[t].pc = "notify" /\ muts[t].event # <<>>
    /\ \E w \in Watchers :
          /\ Len(seen[w]) = 2
          /\ seen[w][1] # seen[w][2]
          /\ chans[w] = <<>>

\* C40: the Initialize/Stop lifecycle is safe for every call sequence: no
\* Stop faults; while the registry is initialized with health checks
\* enabled and no Stop is under way, a health check loop is running, in the
\* second initialized period as in the first; a Stop that returns from an
\* initialized registry leaves no loop running and no listener stored; and
\* a Stop of a registry that is not initialized changes nothing.
C40_LifecycleSafe ==
    /\ [](stopCall # "panic")
    /\ [](initialized /\ dconfig.EnableHealthChecks /\ stopCall = "idle"
            => Running # {})
    /\ [][StopJoin => Running' = {} /\ DOMAIN eventListeners' = {}]_vars
    /\ [][StopSignal /\ ~initialized
            => UNCHANGED <<dconfig, initialized, services, eventListeners,
                           chans, watchers, stopChan, loops>>]_vars

=============================================================================
